---------------------------- MODULE Spec2Model ----------------------------
(***************************************************************************)
(* A model of the request orchestration engine of amazon-sp-api            *)
(* (lib/SellingPartner.js): version resolution, the token gate, callAPI's  *)
(* response classification and retries, the report poller and the error    *)
(* code normalization.                                                     *)
(***************************************************************************)
EXTENDS Integers, Sequences, FiniteSets, TLC

(***************************************************************************)
(* Bounds of the model.                                                    *)
(***************************************************************************)
\* The longest version list of an endpoint of the explored registries.
MaxVersions == 3
\* The longest remote error code drawn from NormAlphabet.
MaxCodeLen == 4
\* The most re-dispatches (after a 403 or a 429) of one call chain.
MaxRetries == 2
\* The most tokens the authorization endpoint issues in one run.
MaxTokens == 3
MaxPolls == 3
\* The most re-dispatches of one call chain when two chains run.
MaxConcurrentRetries == 1

(***************************************************************************)
(* JavaScript values and array methods used by the code.                   *)
(***************************************************************************)
\* JavaScript's undefined (falsy).
undefined == "undefined"

\* Array.prototype.indexOf: 0-based index of the first occurrence, else -1.
indexOf(arr, x) ==
  IF \E i \in 1..Len(arr) : arr[i] = x
  THEN (CHOOSE i \in 1..Len(arr) :
          arr[i] = x /\ \A j \in 1..(i - 1) : arr[j] # x) - 1
  ELSE -1

\* Array.prototype.slice(0, end): a negative end counts from the end.
slice0(arr, end) ==
  LET e == IF end < 0
           THEN (IF Len(arr) + end < 0 THEN 0 ELSE Len(arr) + end)
           ELSE (IF end > Len(arr) THEN Len(arr) ELSE end)
  IN SubSeq(arr, 1, e)

\* Array.prototype.reverse.
reverse(arr) == [i \in 1..Len(arr) |-> arr[Len(arr) + 1 - i]]

\* A function's outcome: a returned value or a thrown CustomError code.
Return(v) == [kind |-> "return", value |-> v]
Throw(code) == [kind |-> "throw", value |-> code]
\* No outcome yet.
Pending == [kind |-> "pending", value |-> undefined]

(***************************************************************************)
(* State.                                                                  *)
(***************************************************************************)
VARIABLES
  endpoints,            \* the endpoint registry (require('./endpoints'))
  _options,             \* this._options
  _endpoints_versions,  \* this._endpoints_versions: endpoint -> pinned version
  vcall,                \* a call's operation, endpoint and options.version
  vresult,              \* the outcome of the call's build phase, or Pending
  ncode,                \* a remote error code (error.code), as its characters
  normalized,           \* the code callAPI throws for it (<<>>: not yet)
  renormalized,         \* the normalization of normalized (<<>>: not yet)
  _access_token,        \* this._access_token (the default token)
  _grantless_tokens,    \* this._grantless_tokens: scope -> token
  _current_call_timeouts, \* this._current_call_timeouts
  issued,               \* the number of tokens the authorization endpoint issued
  chain,                \* the call chains
  report                \* downloadReport's run: req_params and where it is

configVars == <<endpoints, _options, _endpoints_versions>>
versionVars == <<vcall, vresult>>
normVars == <<ncode, normalized, renormalized>>
tokenVars == <<_access_token, _grantless_tokens, _current_call_timeouts, issued>>
vars == <<configVars, versionVars, normVars, tokenVars, chain, report>>

(***************************************************************************)
(* The endpoint registry: endpoint -> [__versions, __operations, and per   *)
(* version the operations it defines].                                     *)
(***************************************************************************)
\* Version identifiers in registry order (oldest first).
VersionIds == <<"2020-01-01", "2021-06-30", "2022-11-01", "2023-11-15", "2024-06-19">>

ReportOperations == {"getReport", "cancelReport"}

\* A registry entry with n versions whose version v defines the operations ops[v].
EndpointEntry(n, ops) ==
  [__versions |-> SubSeq(VersionIds, 1, n),
   __operations |-> UNION {ops[v] : v \in DOMAIN ops},
   ops |-> ops]

\* The registries explored: one endpoint, every assignment of operations to versions.
Registries ==
  {[e \in {"reports"} |-> EndpointEntry(n, ops)] :
     <<n, ops>> \in UNION {{<<m, o>> :
         o \in [{VersionIds[i] : i \in 1..m} -> SUBSET ReportOperations]} :
           m \in 1..MaxVersions}}

\* endpoints[endpoint][version][operation] is a builder (truthy).
HasOperation(endpoint, version, operation) ==
  operation \in endpoints[endpoint].ops[version]

\* Array.prototype.find with the callback of lines 350-352 and 387-389: the
\* first version of arr that defines the operation, else undefined.
find(arr, endpoint, operation) ==
  IF \E i \in 1..Len(arr) : HasOperation(endpoint, arr[i], operation)
  THEN arr[CHOOSE i \in 1..Len(arr) :
             /\ HasOperation(endpoint, arr[i], operation)
             /\ \A j \in 1..(i - 1) : ~HasOperation(endpoint, arr[j], operation)]
  ELSE undefined

(***************************************************************************)
(* VersionResolver (SellingPartner.js 310-406).                            *)
(***************************************************************************)
\* operation is the list of the '.'-separated parts of the operation string
\* (<<>> for a missing operation); endpoint is a name or undefined.
_validateOperationAndEndpoint(operation, endpoint) ==
  IF operation = <<>>
  THEN Throw("NO_OPERATION_GIVEN")
  ELSE IF Len(operation) = 1 /\ endpoint = undefined
  THEN Throw("NO_ENDPOINT_GIVEN")
  ELSE LET ep == IF Len(operation) > 1 THEN operation[1] ELSE endpoint
           op == IF Len(operation) > 1 THEN operation[2] ELSE operation[1]
       IN IF ep \notin DOMAIN endpoints
          THEN Throw("ENDPOINT_NOT_FOUND")
          ELSE IF op \notin endpoints[ep].__operations
          THEN Throw("INVALID_OPERATION_FOR_ENDPOINT")
          ELSE Return([operation |-> op, endpoint |-> ep])

\* A plausible slip: the older versions are searched oldest first.
_getFallbackVersion_oldestFirst(operation, endpoint, version) ==
  LET version_index == indexOf(endpoints[endpoint].__versions, version)
      fallback_version ==
        find(slice0(endpoints[endpoint].__versions, version_index), endpoint, operation)
  IN IF ~_options.version_fallback \/ fallback_version = undefined
     THEN Throw("OPERATION_NOT_FOUND_FOR_VERSION")
     ELSE Return(fallback_version)

_getFallbackVersion(operation, endpoint, version) ==
  LET version_index == indexOf(endpoints[endpoint].__versions, version)
      fallback_version ==
        find(reverse(slice0(endpoints[endpoint].__versions, version_index)),
             endpoint, operation)
  IN IF ~_options.version_fallback \/ fallback_version = undefined
     THEN Throw("OPERATION_NOT_FOUND_FOR_VERSION")
     ELSE Return(fallback_version)

\* A plausible slip: a valid version is returned whether or not it defines
\* the operation.
_validateLocallySetVersion_unchecked(operation, endpoint, version) ==
  IF indexOf(endpoints[endpoint].__versions, version) = -1
  THEN Throw("INVALID_VERSION")
  ELSE Return(version)

_validateLocallySetVersion(operation, endpoint, version) ==
  IF indexOf(endpoints[endpoint].__versions, version) = -1
  THEN Throw("INVALID_VERSION")
  ELSE IF ~HasOperation(endpoint, version, operation)
  THEN _getFallbackVersion(operation, endpoint, version)
  ELSE Return(version)

\* A plausible slip: without a pin the newest defining version is taken.
_validateGloballySetVersion_newest(operation, endpoint) ==
  IF _endpoints_versions[endpoint] = undefined
  THEN Return(find(reverse(endpoints[endpoint].__versions), endpoint, operation))
  ELSE LET version == _endpoints_versions[endpoint]
       IN IF ~HasOperation(endpoint, version, operation)
          THEN _getFallbackVersion(operation, endpoint, version)
          ELSE Return(version)

_validateGloballySetVersion(operation, endpoint) ==
  IF _endpoints_versions[endpoint] = undefined
  THEN Return(find(endpoints[endpoint].__versions, endpoint, operation))
  ELSE LET version == _endpoints_versions[endpoint]
       IN IF ~HasOperation(endpoint, version, operation)
          THEN _getFallbackVersion(operation, endpoint, version)
          ELSE Return(version)

\* A plausible slip: the endpoint's pin is preferred over options.version.
_validateAndGetVersion_pinFirst(operation, endpoint, version) ==
  IF version # undefined /\ _endpoints_versions[endpoint] = undefined
  THEN _validateLocallySetVersion(operation, endpoint, version)
  ELSE _validateGloballySetVersion(operation, endpoint)

_validateAndGetVersion(operation, endpoint, version) ==
  IF version # undefined
  THEN _validateLocallySetVersion(operation, endpoint, version)
  ELSE _validateGloballySetVersion(operation, endpoint)

\* The resolved [operation, endpoint, version] for the outcome v of
\* _validateAndGetVersion.
withVersion(validated, v) ==
  IF v.kind = "throw"
  THEN v
  ELSE Return([operation |-> validated.operation, endpoint |-> validated.endpoint,
               version |-> v.value])

\* Line 622, for the outcome oe of line 621.
resolveValidated(oe, version) ==
  IF oe.kind = "throw"
  THEN oe
  ELSE withVersion(oe.value,
         _validateAndGetVersion(oe.value.operation, oe.value.endpoint, version))

\* callAPI's build phase for an operation call (lines 621-622): the resolved
\* [operation, endpoint, version], or the error thrown.
ResolveOperation(operation, endpoint, version) ==
  resolveValidated(_validateOperationAndEndpoint(operation, endpoint), version)

(***************************************************************************)
(* Options.                                                                *)
(***************************************************************************)
\* The constructor's defaults (lines 55-68).
DefaultOptions ==
  [auto_request_tokens |-> TRUE,
   auto_request_throttled |-> TRUE,
   use_sandbox |-> FALSE,
   only_grantless_operations |-> FALSE,
   version_fallback |-> TRUE]

(***************************************************************************)
(* Error-code normalization (SellingPartner.js 705-708):                   *)
(*   error.code ? error.code.split(/(?=[A-Z])/).join('_').toUpperCase()    *)
(*              : 'UNKNOWN_ERROR'                                          *)
(* Strings are sequences of one-character strings.                         *)
(***************************************************************************)
LowerLetters ==
  <<"a", "b", "c", "d", "e", "f", "g", "h", "i", "j", "k", "l", "m",
    "n", "o", "p", "q", "r", "s", "t", "u", "v", "w", "x", "y", "z">>
UpperLetters ==
  <<"A", "B", "C", "D", "E", "F", "G", "H", "I", "J", "K", "L", "M",
    "N", "O", "P", "Q", "R", "S", "T", "U", "V", "W", "X", "Y", "Z">>

\* The character class [A-Z].
IsUpper(ch) == \E i \in 1..26 : UpperLetters[i] = ch

\* String.prototype.toUpperCase, on one character and on a string.
toUpperCaseChar(ch) ==
  IF \E i \in 1..26 : LowerLetters[i] = ch
  THEN UpperLetters[CHOOSE i \in 1..26 : LowerLetters[i] = ch]
  ELSE ch
toUpperCase(str) == [i \in 1..Len(str) |-> toUpperCaseChar(str[i])]

\* A plausible slip: split(/(?<=[a-z])(?=[A-Z])/), only after a lower-case letter.
RECURSIVE splitBeforeUpper_afterLower(_)
splitBeforeUpper_afterLower(str) ==
  LET cuts == {i \in 2..Len(str) : IsUpper(str[i]) /\ ~IsUpper(str[i - 1])
                                   /\ toUpperCaseChar(str[i - 1]) # str[i - 1]}
  IN IF cuts = {}
     THEN <<str>>
     ELSE LET c == CHOOSE i \in cuts : \A j \in cuts : i <= j
          IN <<SubSeq(str, 1, c - 1)>>
               \o splitBeforeUpper_afterLower(SubSeq(str, c, Len(str)))

\* String.prototype.split(/(?=[A-Z])/): the string is cut before every
\* upper-case letter except one at its start (an empty match at the start of
\* the remaining string does not split).
RECURSIVE splitBeforeUpper(_)
splitBeforeUpper(str) ==
  LET cuts == {i \in 2..Len(str) : IsUpper(str[i])}
  IN IF cuts = {}
     THEN <<str>>
     ELSE LET c == CHOOSE i \in cuts : \A j \in cuts : i <= j
          IN <<SubSeq(str, 1, c - 1)>> \o splitBeforeUpper(SubSeq(str, c, Len(str)))

\* Array.prototype.join.
RECURSIVE join(_, _)
join(parts, sep) ==
  IF Len(parts) = 0 THEN <<>>
  ELSE IF Len(parts) = 1 THEN parts[1]
  ELSE parts[1] \o sep \o join(Tail(parts), sep)

\* Remote error codes (error.code).
QuotaExceeded == <<"Q", "u", "o", "t", "a", "E", "x", "c", "e", "e", "d", "e", "d">>
InvalidInputXYZ ==
  <<"I", "n", "v", "a", "l", "i", "d", "I", "n", "p", "u", "t", "X", "Y", "Z">>

UNKNOWN_ERROR == <<"U", "N", "K", "N", "O", "W", "N", "_", "E", "R", "R", "O", "R">>

\* The code of the CustomError thrown for a remote error code (<<>>: a falsy code).
normalizeErrorCode(code) ==
  IF code = <<>>
  THEN UNKNOWN_ERROR
  ELSE toUpperCase(join(splitBeforeUpper(code), <<"_">>))

(***************************************************************************)
(* Tokens, scopes and the token gate (SellingPartner.js 251-298).          *)
(***************************************************************************)
\* An unset token slot (undefined); bearer tokens are positive numbers.
NoToken == 0
\* The access_token passed to the constructor (config.access_token).
ConfigToken == 1
\* The restricted_data_token a caller passes in req_params.
RestrictedDataToken == 2
\* The tokens the authorization endpoint issues are numbered from here.
FirstIssuedToken == 3

NotificationsScope == "sellingpartnerapi::notifications"
RotationScope == "sellingpartnerapi::client_credential:rotation"
valid_scopes == {NotificationsScope, RotationScope}
\* The scopes a request can carry: the valid ones and an unknown one.
ScopeInputs == valid_scopes \cup {"sellingpartnerapi::unknown"}

\* _constructRefreshAccessTokenBody: the grant of the token request, or the throw.
_constructRefreshAccessTokenBody(opts, scope) ==
  IF scope # undefined
  THEN IF scope \notin valid_scopes
       THEN Throw("INVALID_SCOPE_ERROR")
       ELSE Return("client_credentials")
  ELSE IF ~opts.only_grantless_operations
  THEN Return("refresh_token")
  ELSE Throw("NO_SCOPE_PROVIDED")

\* A plausible slip: the default token counts for a scoped call too.
_tokenExists_anyToken(access_token, grantless_tokens, scope) ==
  \/ access_token # NoToken
  \/ (scope # undefined /\ grantless_tokens[scope] # NoToken)

_tokenExists(access_token, grantless_tokens, scope) ==
  \/ (access_token # NoToken /\ scope = undefined)
  \/ (scope # undefined /\ grantless_tokens[scope] # NoToken)

\* A plausible slip: the test of the scope is inverted.
_validateOperationAllowance_scoped(opts, scope) ==
  ~(opts.only_grantless_operations /\ scope # undefined)

\* _validateOperationAllowance lets the call pass.
_validateOperationAllowance(opts, scope) ==
  ~(opts.only_grantless_operations /\ scope = undefined)

\* A plausible slip: the restricted data token is preferred over the scoped token.
tokenForRequest_rdtFirst(access_token, grantless_tokens, req_params) ==
  IF req_params.restricted_data_token # NoToken
  THEN req_params.restricted_data_token
  ELSE IF req_params.scope # undefined
  THEN grantless_tokens[req_params.scope]
  ELSE access_token

\* callAPI 647-652: the bearer of the request.
tokenForRequest(access_token, grantless_tokens, req_params) ==
  IF req_params.scope # undefined
  THEN grantless_tokens[req_params.scope]
  ELSE IF req_params.restricted_data_token # NoToken
  THEN req_params.restricted_data_token
  ELSE access_token

(***************************************************************************)
(* Request descriptors and callAPI's build phase (616-641).                *)
(***************************************************************************)
RECURSIVE Str(_)
\* The string of a sequence of characters.
Str(chars) == IF chars = <<>> THEN "" ELSE chars[1] \o Str(Tail(chars))

\* No restore rate (undefined or 0, both falsy); restore rates are in milliseconds.
NoRate == 0

GET == <<"G", "E", "T">>
POST == <<"P", "O", "S", "T">>
DELETE == <<"D", "E", "L", "E", "T", "E">>

\* _validateMethod: method is the sequence of the method's characters
\* (<<>>: no method).
_validateMethod(method) ==
  IF method = <<>> \/ Str(toUpperCase(method)) \notin {"GET", "POST", "PUT", "DELETE", "PATCH"}
  THEN Throw("NO_VALID_METHOD_PROVIDED")
  ELSE Return(toUpperCase(method))

\* The instance-level timeouts (this._options.timeouts).
InstanceTimeouts == [response |-> 0, deadline |-> 0]
\* options.timeouts of a call that sets none.
NoTimeouts == [response |-> -1, deadline |-> -1]

\* Object.assign({}, this._options.timeouts, options.timeouts): a field the
\* call sets (>= 0) overrides the instance's.
assignTimeouts(instance, given) ==
  [f \in DOMAIN instance |-> IF given[f] >= 0 THEN given[f] ELSE instance[f]]

\* What the builder endpoints[endpoint][version][operation] assigns to
\* req_params: method, api_path, restore_rate and, for a grantless operation,
\* scope.
Builder(endpoint, version, operation) ==
  [method |-> IF operation = "createReport" THEN POST
              ELSE IF operation = "cancelReport" THEN DELETE ELSE GET,
   api_path |-> <<endpoint, version, operation>>,
   restore_rate |-> IF operation = "getReport" THEN 500 ELSE
                    IF operation = "getDestinations" THEN NoRate ELSE 1000,
   scope |-> IF endpoint = "notifications" THEN NotificationsScope ELSE undefined]

\* req_params of a call that sets nothing.
EmptyRequest ==
  [operation |-> <<>>, endpoint |-> undefined, api_path |-> <<>>, method |-> <<>>,
   scope |-> undefined, restricted_data_token |-> NoToken, restore_rate |-> NoRate,
   timeouts |-> InstanceTimeouts, path |-> undefined,
   options |-> [version |-> undefined, restore_rate |-> NoRate,
                raw_result |-> FALSE, timeouts |-> NoTimeouts]]

\* Line 619, for the outcome m of _validateMethod.
withMethod(req_params, m) ==
  IF m.kind = "throw" THEN m ELSE Return([req_params EXCEPT !.method = m.value])

\* Lines 623-626: what the builder b assigns to req_params.
withBuilder(req_params, b) ==
  Return([req_params EXCEPT
            !.method = b.method,
            !.api_path = b.api_path,
            !.restore_rate = b.restore_rate,
            !.scope = IF b.scope # undefined THEN b.scope ELSE @])

\* Lines 621-626, for the outcome r of the resolution.
withResolved(req_params, r) ==
  IF r.kind = "throw"
  THEN r
  ELSE withBuilder(req_params,
         Builder(r.value.endpoint, r.value.version, r.value.operation))

\* Lines 634-639: the restore_rate option and the call's timeouts.
withOptions(built, options) ==
  IF built.kind = "throw"
  THEN built
  ELSE Return([built.value EXCEPT
         !.restore_rate = IF options.restore_rate # NoRate
                          THEN options.restore_rate ELSE @,
         !.timeouts = assignTimeouts(InstanceTimeouts, options.timeouts)])

\* callAPI 617-641: the request descriptor req_params is rebound to, or the throw.
BuildRequest(req_params) ==
  withOptions(
    IF req_params.api_path # <<>>
    THEN withMethod(req_params, _validateMethod(req_params.method))
    ELSE withResolved(req_params,
           ResolveOperation(req_params.operation, req_params.endpoint,
                            req_params.options.version)),
    req_params.options)

(***************************************************************************)
(* Responses of the remote API and of the authorization endpoint.          *)
(***************************************************************************)
Unauthorized == <<"U", "n", "a", "u", "t", "h", "o", "r", "i", "z", "e", "d">>
InternalFailure ==
  <<"I", "n", "t", "e", "r", "n", "a", "l", "F", "a", "i", "l", "u", "r", "e">>
InvalidInput == <<"I", "n", "v", "a", "l", "i", "d", "I", "n", "p", "u", "t">>

ExpiredText == "The access token you provided has expired."
DeniedText == "Access to requested resource is denied."

\* /access token.*expired/.test(error.details); an undefined details is
\* tested as the string "undefined".
matchesExpired(details) == details = ExpiredText

ErrorOf(code, message, details) == [code |-> code, message |-> message, details |-> details]

\* A JavaScript object: its fields as a set of <<name, value>> pairs, or no
\* object at all (undefined).
Obj(fields) == [present |-> TRUE, fields |-> fields]
Absent == [present |-> FALSE, fields |-> {}]
\* object[name], undefined when the field is not there.
Get(object, name) ==
  IF \E p \in object.fields : p[1] = name
  THEN (CHOOSE p \in object.fields : p[1] = name)[2]
  ELSE undefined
\* Object.assign(target, source): source's fields override target's.
assign(target, source) ==
  Obj(source.fields \cup {p \in target.fields : \A q \in source.fields : q[1] # p[1]})

\* Parsed bodies: errors (a list), payload and pagination (objects or
\* undefined) and the body's other top-level fields.
BodyOf(errors, payload, pagination, fields) ==
  [parses |-> TRUE, errors |-> errors, payload |-> payload,
   pagination |-> pagination, fields |-> fields]
Unparseable ==
  [parses |-> FALSE, errors |-> <<>>, payload |-> Absent, pagination |-> Absent,
   fields |-> {}]
ErrorBody(error) == BodyOf(<<error>>, Absent, Absent, {})

ResponseOf(statusCode, ratelimit, body) ==
  [statusCode |-> statusCode, ratelimit |-> ratelimit, body |-> body]

\* A JavaScript value is falsy: undefined or the empty string.
falsy(v) == v \in {undefined, ""}

\* The values of the x-amzn-ratelimit-limit header the remote sends.
RateLimitInputs == {undefined, "2", "4", "abc"}

TokenExpiredResponse ==
  ResponseOf(403, undefined, ErrorBody(ErrorOf(Unauthorized, DeniedText, ExpiredText)))

ThrottledResponses ==
  {ResponseOf(429, h, ErrorBody(ErrorOf(QuotaExceeded, "You exceeded your quota.", undefined))) :
     h \in RateLimitInputs}

\* The responses after which callAPI dispatches again (when the options allow).
RetryResponses == {TokenExpiredResponse} \cup ThrottledResponses

\* The responses that end the call whatever the options are.
FinalResponses ==
  {ResponseOf(204, undefined, Unparseable),
   ResponseOf(200, undefined, Unparseable),
   ResponseOf(200, "2", BodyOf(<<>>, Obj({<<"items", "i1">>}), Absent, {})),
   ResponseOf(200, undefined,
     BodyOf(<<>>, Obj({<<"items", "i1">>}),
            Obj({<<"nextToken", "n1">>, <<"items", "i0">>}), {})),
   ResponseOf(200, undefined, BodyOf(<<>>, Absent, Absent, {<<"isEligible", "true">>})),
   ResponseOf(200, undefined,
     BodyOf(<<>>, Absent, Obj({<<"nextToken", "n1">>}), {<<"isEligible", "true">>})),
   ResponseOf(403, undefined, ErrorBody(ErrorOf(Unauthorized, ExpiredText, undefined))),
   ResponseOf(401, undefined, ErrorBody(ErrorOf(Unauthorized, DeniedText, ExpiredText))),
   ResponseOf(400, "2", ErrorBody(ErrorOf(QuotaExceeded, "You exceeded your quota.", undefined))),
   ResponseOf(500, undefined, ErrorBody(ErrorOf(InternalFailure, "Internal failure.", undefined))),
   ResponseOf(400, undefined, ErrorBody(ErrorOf(<<>>, "Bad request.", undefined))),
   ResponseOf(403, undefined,
     BodyOf(<<ErrorOf(InvalidInput, "Invalid input.", undefined),
              ErrorOf(Unauthorized, DeniedText, ExpiredText)>>, Absent, Absent, {}))}

Responses == RetryResponses \cup FinalResponses

\* The authorization endpoint's answers: a token, an error-shaped body, a body
\* with neither, a body that does not parse.
TokenResponseKinds == {"access_token", "error", "neither", "unparseable"}

(***************************************************************************)
(* Throttle retry delay (_retryThrottledRequest, 509-526).                 *)
(***************************************************************************)
\* JavaScript numbers of seconds, kept in milliseconds; NaN is its own value.
Seconds(ms) == [nan |-> FALSE, ms |-> ms]
NaN == [nan |-> TRUE, ms |-> 0]

\* header * 1: the number a header string converts to.
toNumber(header) ==
  IF header = "2" THEN 2 ELSE IF header = "4" THEN 4 ELSE 0

\* header * 1 is NaN.
isNaN(header) == header \notin {"2", "4"}

\* 1 / (header * 1), in seconds.
oneOver(header) == IF isNaN(header) THEN NaN ELSE Seconds(1000 \div toNumber(header))

\* A plausible slip: the static restore rate is preferred over the header.
retryDelay_staticFirst(ratelimit, restore_rate) ==
  IF ~falsy(ratelimit) \/ restore_rate # NoRate
  THEN [wait |-> TRUE,
        restore_rate |-> IF restore_rate # NoRate THEN Seconds(restore_rate)
                         ELSE oneOver(ratelimit)]
  ELSE [wait |-> FALSE, restore_rate |-> Seconds(0)]

\* Lines 511-524: whether _wait is called, and with which restore_rate.
retryDelay(ratelimit, restore_rate) ==
  IF ~falsy(ratelimit) \/ restore_rate # NoRate
  THEN [wait |-> TRUE,
        restore_rate |-> IF ~falsy(ratelimit) THEN oneOver(ratelimit)
                         ELSE Seconds(restore_rate)]
  ELSE [wait |-> FALSE, restore_rate |-> Seconds(0)]

(***************************************************************************)
(* The registry, options and calls of the runs.                            *)
(***************************************************************************)
AllReportOperations == {"createReport", "getReport", "cancelReport", "getReportDocument"}

\* The registry of the runs: reports in two versions, notifications in one.
MainRegistry ==
  [e \in {"reports", "notifications"} |->
     IF e = "reports"
     THEN EndpointEntry(2, [v \in {VersionIds[1], VersionIds[2]} |-> AllReportOperations])
     ELSE EndpointEntry(1, [v \in {VersionIds[1]} |-> {"getDestinations"}])]

\* The option sets of the runs: every setting of the three gates, and the
\* sandbox with the defaults.
OptionInputs ==
  {[DefaultOptions EXCEPT !.auto_request_tokens = t, !.auto_request_throttled = r,
                          !.only_grantless_operations = g] :
     t \in BOOLEAN, r \in BOOLEAN, g \in BOOLEAN}
  \cup {[DefaultOptions EXCEPT !.use_sandbox = TRUE]}

CallTimeouts == [response |-> 5000, deadline |-> -1]

\* The calls that pass the build phase, in their base form.
BaseRequests ==
  {[EmptyRequest EXCEPT !.api_path = <<"/orders/v0/orders">>, !.method = <<"g", "e", "t">>],
   [EmptyRequest EXCEPT !.api_path = <<"/notifications/v1/destinations">>, !.method = GET,
                        !.scope = NotificationsScope],
   [EmptyRequest EXCEPT !.api_path = <<"/notifications/v1/destinations">>, !.method = GET,
                        !.scope = "sellingpartnerapi::unknown"],
   [EmptyRequest EXCEPT !.operation = <<"reports", "getReport">>],
   [EmptyRequest EXCEPT !.operation = <<"getDestinations">>, !.endpoint = "notifications"]}

\* The calls of the runs: the base requests with and without a restricted data
\* token, a restore_rate option, raw_result and call timeouts, and calls that
\* fail in the build phase.
RequestInputs ==
  {[r EXCEPT !.restricted_data_token = rdt,
             !.options = [@ EXCEPT !.restore_rate = rate]] :
     r \in BaseRequests, rdt \in {NoToken, RestrictedDataToken}, rate \in {NoRate, 2000}}
  \cup {[r EXCEPT !.options = [@ EXCEPT !.raw_result = TRUE, !.timeouts = CallTimeouts]] :
          r \in BaseRequests}
  \cup {[EmptyRequest EXCEPT !.api_path = <<"/orders/v0/orders">>, !.method = <<"F", "E", "T", "C", "H">>],
        [EmptyRequest EXCEPT !.api_path = <<"/orders/v0/orders">>],
        [EmptyRequest EXCEPT !.operation = <<"reports", "getOrders">>],
        [EmptyRequest EXCEPT !.operation = <<"reports", "getReport">>,
                             !.options = [@ EXCEPT !.version = "1999-01-01"]]}

(***************************************************************************)
(* Call chains: callAPI (616-718), refreshAccessToken (558-594) and        *)
(* _retryThrottledRequest (509-526).  A chain is at one of:                *)
(*   "off"             not part of the run                                 *)
(*   "idle"            the caller has not called yet                       *)
(*   "gate_refresh"    awaiting the token response of _validateAccessToken *)
(*   "gated"           past await _validateAccessToken, before the dispatch*)
(*   "dispatched"      awaiting this._request.api                          *)
(*   "expired_refresh" awaiting the token response after a 403             *)
(*   "throttle_wait"   awaiting _wait                                      *)
(*   "settled"         callAPI returned or threw (outcome)                 *)
(***************************************************************************)
Chains == {1, 2}

NoResponse == ResponseOf(0, undefined, Unparseable)

\* What a chain did, in order: the entries into callAPI ("enter"), the token
\* requests and responses, the dispatches and their responses, the waits.
Event(type, scope, token, timeouts, restore_rate, res) ==
  [type |-> type, scope |-> scope, token |-> token, timeouts |-> timeouts,
   restore_rate |-> restore_rate, res |-> res]
EnterEvent == Event("enter", undefined, NoToken, InstanceTimeouts, Seconds(0), NoResponse)
TokenRequestEvent(scope, timeouts) ==
  Event("token_request", scope, NoToken, timeouts, Seconds(0), NoResponse)
TokenResponseEvent(scope, token) ==
  Event("token_response", scope, token, InstanceTimeouts, Seconds(0), NoResponse)
ApiRequestEvent(scope, token, timeouts) ==
  Event("api_request", scope, token, timeouts, Seconds(0), NoResponse)
ApiResponseEvent(res) ==
  Event("api_response", undefined, NoToken, InstanceTimeouts, Seconds(0), res)
WaitEvent(restore_rate) ==
  Event("wait", undefined, NoToken, InstanceTimeouts, restore_rate, NoResponse)

IdleChain ==
  [pc |-> "idle", req_params |-> EmptyRequest, outcome |-> Pending,
   timeout |-> undefined, retries |-> 0, log |-> <<>>]
OffChain == [IdleChain EXCEPT !.pc = "off"]

\* callAPI returns or throws.
Settle(ch, outcome) == [ch EXCEPT !.pc = "settled", !.outcome = outcome]

\* refreshAccessToken up to its await: the token request is sent with
\* this._current_call_timeouts, unless building its body throws.
RequestToken(ch, scope, timeouts, pc) ==
  LET body == _constructRefreshAccessTokenBody(_options, scope)
  IN IF body.kind = "throw"
     THEN Settle(ch, body)
     ELSE [ch EXCEPT !.pc = pc, !.log = Append(@, TokenRequestEvent(scope, timeouts))]

\* _validateOperationAllowance and _validateAccessToken up to the first await
\* (644-645), for a chain ch whose token exists or not.
gate(ch, scope, timeouts, exists) ==
  IF ~_validateOperationAllowance(_options, scope)
  THEN Settle(ch, Throw("INVALID_OPERATION_ERROR"))
  ELSE IF _options.auto_request_tokens /\ ~exists
  THEN RequestToken(ch, scope, timeouts, "gate_refresh")
  ELSE IF ~exists
  THEN Settle(ch, Throw("NO_ACCESS_TOKEN_PRESENT"))
  ELSE [ch EXCEPT !.pc = "gated"]

\* A plausible slip: the timeouts of the call are not stored (line 641).
entered_timeoutsNotStored(c, b, ch, access_token, grantless_tokens) ==
  IF b.kind = "throw"
  THEN /\ chain' = [chain EXCEPT ![c] = Settle(ch, b)]
       /\ UNCHANGED _current_call_timeouts
  ELSE /\ UNCHANGED _current_call_timeouts
       /\ chain' = [chain EXCEPT ![c] =
            gate([ch EXCEPT !.req_params = b.value], b.value.scope, _current_call_timeouts,
                 _tokenExists(access_token, grantless_tokens, b.value.scope))]

\* Lines 639-645, for the outcome b of the build phase.
entered(c, b, ch, access_token, grantless_tokens) ==
  IF b.kind = "throw"
  THEN /\ chain' = [chain EXCEPT ![c] = Settle(ch, b)]
       /\ UNCHANGED _current_call_timeouts
  ELSE /\ _current_call_timeouts' = b.value.timeouts
       /\ chain' = [chain EXCEPT ![c] =
            gate([ch EXCEPT !.req_params = b.value], b.value.scope, b.value.timeouts,
                 _tokenExists(access_token, grantless_tokens, b.value.scope))]

\* callAPI from its entry to its first await (617-645), for the token slots
\* access_token and grantless_tokens.
Enter(c, req_params, ch, access_token, grantless_tokens) ==
  entered(c, BuildRequest(req_params), [ch EXCEPT !.log = Append(@, EnterEvent)],
          access_token, grantless_tokens)

\* downloadReport's run.  stage is one of:
\*   "off"         not part of the run
\*   "idle"        downloadReport has not been called
\*   "creating"    awaiting _createReport's callAPI
\*   "polling"     awaiting _getReport's callAPI
\*   "waiting"     awaiting _getReport's _wait
\*   "cancelling"  awaiting _cancelReport's callAPI
\*   "fetching"    awaiting _getReportDocument's callAPI
\*   "downloading" awaiting download
\*   "done"        downloadReport returned or threw (outcome)
\* log lists, in order, the calls of callAPI the run made (by operation), the
\* statuses it read and its waits.
ReportEvent(type, id, status, ms) == [type |-> type, id |-> id, status |-> status, ms |-> ms]

IdleReport ==
  [stage |-> "idle",
   req_params |-> [version |-> undefined, interval |-> 0, cancel_after |-> 0, tries |-> 0],
   report_id |-> undefined, report_document |-> Absent, outcome |-> Pending, log |-> <<>>]
OffReport == [IdleReport EXCEPT !.stage = "off"]

\* The values the remote gives to reports and report documents.
ReportIds == {"r1", "r2"}
DocumentIds == {"d1", "d2"}

\* A response whose body has these top-level fields and no errors.
FieldsResponse(statusCode, fields) ==
  ResponseOf(statusCode, undefined, BodyOf(<<>>, Absent, Absent, fields))

\* The statuses of a report that is still being processed.
PendingStatuses == {"IN_QUEUE", "IN_PROGRESS"}

\* The remote's answers to the report operations.
ReportResponses(operation) ==
  IF operation = "createReport"
  THEN {FieldsResponse(202, {<<"reportId", id>>}) : id \in ReportIds}
  ELSE IF operation = "getReport"
  THEN {FieldsResponse(200, {<<"processingStatus", s>>}) :
          s \in PendingStatuses \cup {"CANCELLED", "FATAL"}}
       \cup {FieldsResponse(200, {<<"processingStatus", "DONE">>, <<"reportDocumentId", d>>}) :
               d \in DocumentIds}
  ELSE IF operation = "cancelReport"
  THEN {FieldsResponse(200, {})}
  ELSE {FieldsResponse(200, {<<"reportDocumentId", d>>, <<"url", "https://documents/" \o d>>}) :
          d \in DocumentIds}
       \cup {FieldsResponse(200, {<<"reportDocumentId", "d1">>})}

\* The responses that fail or throttle a report call.
ReportFailures ==
  {ResponseOf(429, "2", ErrorBody(ErrorOf(QuotaExceeded, "You exceeded your quota.", undefined))),
   ResponseOf(400, undefined, ErrorBody(ErrorOf(InvalidInput, "Invalid input.", undefined)))}

\* The response tells that the report is still being processed.
IsPending(res) ==
  \E s \in PendingStatuses : <<"processingStatus", s>> \in res.body.fields

\* Two call chains are part of the run.
Concurrent == \A c \in Chains : chain[c].pc # "off"

\* The per-call timeouts of the second of two concurrent calls.
OtherCallTimeouts == [response |-> 9000, deadline |-> -1]

\* The calls of a run of two chains: two calls of one path that differ in
\* their timeouts, and a grantless call.
ConcurrentRequests ==
  {[EmptyRequest EXCEPT !.api_path = <<"/orders/v0/orders">>, !.method = GET,
                        !.options = [@ EXCEPT !.timeouts = CallTimeouts]],
   [EmptyRequest EXCEPT !.api_path = <<"/orders/v0/orders">>, !.method = GET,
                        !.options = [@ EXCEPT !.timeouts = OtherCallTimeouts]],
   [EmptyRequest EXCEPT !.api_path = <<"/notifications/v1/destinations">>, !.method = GET,
                        !.scope = NotificationsScope]}

\* The remote's answers in a run of two chains: the token is expired, the
\* call is throttled, or it succeeds.
ConcurrentResponses ==
  {TokenExpiredResponse,
   ResponseOf(429, "2", ErrorBody(ErrorOf(QuotaExceeded, "You exceeded your quota.", undefined))),
   ResponseOf(200, undefined, BodyOf(<<>>, Obj({<<"items", "i1">>}), Absent, {}))}

\* The number of responses of one call that the remote answers with a
\* response of RetryResponses.
RetryBound == IF Concurrent THEN MaxConcurrentRetries ELSE MaxRetries

\* The calls a caller makes.
CallInputs == IF Concurrent THEN ConcurrentRequests ELSE RequestInputs

\* What the remote may answer to chain c's request: in a run of downloadReport
\* the answers to the report operation called (a report is pending for at most
\* MaxPolls polls), in a run of two chains one of ConcurrentResponses, else
\* any of Responses.
RemoteResponses(c) ==
  IF report.stage = "off"
  THEN IF Concurrent THEN ConcurrentResponses ELSE Responses
  ELSE {res \in ReportResponses(chain[c].req_params.api_path[3]) \cup ReportFailures :
          IsPending(res) => report.req_params.tries < MaxPolls}

\* The caller calls callAPI(req_params).
CallAPI(c) ==
  /\ report.stage = "off"
  /\ chain[c].pc = "idle"
  /\ \E req_params \in CallInputs :
       Enter(c, req_params, chain[c], _access_token, _grantless_tokens)
  /\ UNCHANGED <<report, configVars, versionVars, normVars, _access_token, _grantless_tokens, issued>>

\* The error refreshAccessToken throws for a token response without a token.
refreshError(kind) ==
  IF kind = "unparseable" THEN Throw("REFRESH_ACCESS_TOKEN_PARSE_ERROR")
  ELSE IF kind = "error" THEN Throw("invalid_grant")
  ELSE Throw("UNKNOWN_REFRESH_ACCESS_TOKEN_ERROR")

\* A plausible slip: a token is stored only while the default slot is empty.
storeDefault_ifMissing(scope, token) ==
  IF token # NoToken /\ scope = undefined /\ _access_token = NoToken
  THEN token ELSE _access_token

\* A plausible slip: the token goes to the default slot whatever the scope is.
storeDefault_anyScope(scope, token) ==
  IF token # NoToken THEN token ELSE _access_token

\* Lines 577-582: the slots after a token response that carries token.
storeDefault(scope, token) ==
  IF token # NoToken /\ scope = undefined THEN token ELSE _access_token
\* A plausible slip: the token of a scope is stored for every scope.
storeGrantless_everyScope(scope, token) ==
  IF token # NoToken /\ scope # undefined
  THEN [s \in ScopeInputs |-> token]
  ELSE _grantless_tokens

\* A plausible slip: a token response without a token empties the scope's slot.
storeGrantless_clearing(scope, token) ==
  IF scope # undefined
  THEN [_grantless_tokens EXCEPT ![scope] = token]
  ELSE _grantless_tokens

storeGrantless(scope, token) ==
  IF token # NoToken /\ scope # undefined
  THEN [_grantless_tokens EXCEPT ![scope] = token]
  ELSE _grantless_tokens

\* Lines 568-593 and what follows the await of refreshAccessToken: after the
\* gate's refresh callAPI goes on to the dispatch (291-298, 646); after the
\* refresh for an expired token it calls callAPI(req_params) again (678).
tokenArrives(c, kind, ch, scope, access_token, grantless_tokens) ==
  /\ _access_token' = access_token
  /\ _grantless_tokens' = grantless_tokens
  /\ IF kind # "access_token"
     THEN /\ chain' = [chain EXCEPT ![c] = Settle(ch, refreshError(kind))]
          /\ UNCHANGED _current_call_timeouts
     ELSE IF ch.pc = "gate_refresh"
     THEN /\ chain' = [chain EXCEPT ![c] =
               IF ~_tokenExists(access_token, grantless_tokens, scope)
               THEN Settle(ch, Throw("NO_ACCESS_TOKEN_PRESENT"))
               ELSE [ch EXCEPT !.pc = "gated"]]
          /\ UNCHANGED _current_call_timeouts
     ELSE Enter(c, ch.req_params, ch, access_token, grantless_tokens)

\* The token a token response of this kind carries (NoToken: none).
tokenOf(kind) == IF kind = "access_token" THEN FirstIssuedToken + issued ELSE NoToken

\* The token response arrives.
TokenResponse(c) ==
  /\ chain[c].pc \in {"gate_refresh", "expired_refresh"}
  /\ \E kind \in TokenResponseKinds :
       /\ kind = "access_token" => issued < MaxTokens
       /\ issued' = IF kind = "access_token" THEN issued + 1 ELSE issued
       /\ tokenArrives(c, kind,
            [chain[c] EXCEPT !.log =
               Append(@, TokenResponseEvent(chain[c].req_params.scope, tokenOf(kind)))],
            chain[c].req_params.scope,
            storeDefault(chain[c].req_params.scope, tokenOf(kind)),
            storeGrantless(chain[c].req_params.scope, tokenOf(kind)))
  /\ UNCHANGED <<report, configVars, versionVars, normVars>>

\* callAPI 646-653: the bearer is chosen and the request dispatched.
Dispatch(c) ==
  /\ chain[c].pc = "gated"
  /\ chain' = [chain EXCEPT ![c] =
       [@ EXCEPT !.pc = "dispatched",
                 !.log = Append(@, ApiRequestEvent(chain[c].req_params.scope,
                           tokenForRequest(_access_token, _grantless_tokens,
                                           chain[c].req_params),
                           chain[c].req_params.timeouts))]]
  /\ UNCHANGED <<report, configVars, versionVars, normVars, _access_token, _grantless_tokens,
                 _current_call_timeouts, issued>>

\* A plausible slip: the expiry signal is looked for in error.message.
isTokenExpired_message(statusCode, error) ==
  statusCode = 403 /\ error.code = Unauthorized /\ matchesExpired(error.message)

\* Line 672.
isTokenExpired(statusCode, error) ==
  statusCode = 403 /\ error.code = Unauthorized /\ matchesExpired(error.details)

\* Line 686.
isThrottled(statusCode, error) ==
  statusCode = 429 /\ error.code = QuotaExceeded

\* The raw result callAPI returns with options.raw_result (655): res itself.
RawResult(res) == res

\* The parsed body as one object: its top-level fields, and the fields of
\* its pagination object under the names pagination.<name>.
wholeBody(json_res) ==
  Obj(json_res.fields
      \cup {<<"pagination." \o p[1], p[2]>> : p \in json_res.pagination.fields})

\* A plausible slip: the payload is assigned first, so pagination overrides it.
shapeResult_paginationLast(json_res) ==
  IF json_res.pagination.present /\ json_res.payload.present
  THEN assign(json_res.payload, json_res.pagination)
  ELSE IF json_res.payload.present
  THEN json_res.payload
  ELSE wholeBody(json_res)

\* Lines 711-717: the value callAPI returns for a body without errors.
shapeResult(json_res) ==
  IF json_res.pagination.present /\ json_res.payload.present
  THEN assign(json_res.pagination, json_res.payload)
  ELSE IF json_res.payload.present
  THEN json_res.payload
  ELSE wholeBody(json_res)

\* callAPI returns or throws outcome.
finish(c, ch, outcome) ==
  /\ chain' = [chain EXCEPT ![c] = Settle(ch, outcome)]
  /\ UNCHANGED _current_call_timeouts

\* A plausible slip: a second throttled response in a row is not retried.
retryThrottled_capped(c, ch, delay) ==
  IF ch.retries > 1
  THEN /\ chain' = [chain EXCEPT ![c] = Settle(ch, Throw("QUOTA_EXCEEDED"))]
       /\ UNCHANGED _current_call_timeouts
  ELSE IF delay.wait
  THEN /\ chain' = [chain EXCEPT ![c] =
            [ch EXCEPT !.pc = "throttle_wait",
                       !.log = Append(@, WaitEvent(delay.restore_rate))]]
       /\ UNCHANGED _current_call_timeouts
  ELSE Enter(c, ch.req_params, ch, _access_token, _grantless_tokens)

\* A plausible slip: _wait is started but not awaited.
retryThrottled_noAwait(c, ch, delay) ==
  Enter(c, ch.req_params,
        IF delay.wait
        THEN [ch EXCEPT !.log = Append(@, WaitEvent(delay.restore_rate))]
        ELSE ch,
        _access_token, _grantless_tokens)

\* _retryThrottledRequest (509-526) for the computed delay: _wait, or callAPI
\* at once.
retryThrottled(c, ch, delay) ==
  IF delay.wait
  THEN /\ chain' = [chain EXCEPT ![c] =
            [ch EXCEPT !.pc = "throttle_wait",
                       !.log = Append(@, WaitEvent(delay.restore_rate))]]
       /\ UNCHANGED _current_call_timeouts
  ELSE Enter(c, ch.req_params, ch, _access_token, _grantless_tokens)

\* A plausible slip: the last error of the list is taken.
firstError_last(json_res) == json_res.errors[Len(json_res.errors)]

\* Line 670: let error = json_res.errors[0]
firstError(json_res) == json_res.errors[1]

\* A plausible slip: the error does not carry the header's value.
quotaExceeded_bare(c, ch, res) == finish(c, ch, Throw("QUOTA_EXCEEDED"))

\* Lines 690-696: QUOTA_EXCEEDED with the value of the x-amzn-ratelimit-limit
\* header as timeout (undefined when the header is absent).
quotaExceeded(c, ch, res) ==
  finish(c, [ch EXCEPT !.timeout = res.ratelimit], Throw("QUOTA_EXCEEDED"))

\* Lines 669-709: the first error of a non-empty errors list decides.
onError(c, ch, res, error) ==
  IF isTokenExpired(res.statusCode, error)
  THEN IF _options.auto_request_tokens
       THEN /\ chain' = [chain EXCEPT ![c] =
                 RequestToken([ch EXCEPT !.retries = @ + 1], ch.req_params.scope,
                              _current_call_timeouts, "expired_refresh")]
            /\ UNCHANGED _current_call_timeouts
       ELSE finish(c, ch, Throw("ACCESS_TOKEN_EXPIRED"))
  ELSE IF isThrottled(res.statusCode, error)
  THEN IF _options.auto_request_throttled
       THEN retryThrottled(c, [ch EXCEPT !.retries = @ + 1],
                           retryDelay(res.ratelimit, ch.req_params.restore_rate))
       ELSE quotaExceeded(c, ch, res)
  ELSE IF error.code = InternalFailure /\ _options.use_sandbox
  THEN finish(c, ch, Throw("INVALID_SANDBOX_PARAMETERS"))
  ELSE finish(c, ch, Throw(Str(normalizeErrorCode(error.code))))

\* A plausible slip: the 204 shortcut is taken before raw_result is read.
onResponse_emptyFirst(c, ch, res) ==
  IF res.statusCode = 204
  THEN finish(c, ch, Return(Obj({<<"success", "true">>})))
  ELSE IF ch.req_params.options.raw_result
  THEN finish(c, ch, Return(RawResult(res)))
  ELSE IF ~res.body.parses
  THEN finish(c, ch, Throw("JSON_PARSE_ERROR"))
  ELSE IF Len(res.body.errors) = 0
  THEN finish(c, ch, Return(shapeResult(res.body)))
  ELSE onError(c, ch, res, res.body.errors[1])

\* Lines 654-718 for the response res.
onResponse(c, ch, res) ==
  IF ch.req_params.options.raw_result
  THEN finish(c, ch, Return(RawResult(res)))
  ELSE IF res.statusCode = 204
  THEN finish(c, ch, Return(Obj({<<"success", "true">>})))
  ELSE IF ~res.body.parses
  THEN finish(c, ch, Throw("JSON_PARSE_ERROR"))
  ELSE IF Len(res.body.errors) = 0
  THEN finish(c, ch, Return(shapeResult(res.body)))
  ELSE onError(c, ch, res, firstError(res.body))

\* The response of the dispatch arrives (654-718).
ApiResponse(c) ==
  /\ chain[c].pc = "dispatched"
  /\ \E res \in RemoteResponses(c) :
       /\ res \in RetryResponses => chain[c].retries < RetryBound
       /\ onResponse(c, [chain[c] EXCEPT !.log = Append(@, ApiResponseEvent(res))], res)
  /\ UNCHANGED <<report, configVars, versionVars, normVars, _access_token, _grantless_tokens, issued>>

\* _wait's timer fires and _retryThrottledRequest calls callAPI(req_params).
WaitElapsed(c) ==
  /\ chain[c].pc = "throttle_wait"
  /\ Enter(c, chain[c].req_params, chain[c], _access_token, _grantless_tokens)
  /\ UNCHANGED <<report, configVars, versionVars, normVars, _access_token, _grantless_tokens, issued>>

(***************************************************************************)
(* Spec: one call chain against every remote behaviour.                    *)
(***************************************************************************)
Init ==
  /\ endpoints = MainRegistry
  /\ _options \in OptionInputs
  /\ _endpoints_versions = [e \in DOMAIN endpoints |-> undefined]
  /\ vcall = [operation |-> <<>>, endpoint |-> undefined, version |-> undefined]
  /\ vresult = Pending
  /\ ncode = <<>> /\ normalized = <<>> /\ renormalized = <<>>
  /\ _access_token \in {NoToken, ConfigToken}
  /\ _grantless_tokens = [s \in ScopeInputs |-> NoToken]
  /\ _current_call_timeouts = InstanceTimeouts
  /\ issued = 0
  /\ chain = [c \in Chains |-> IF c = 1 THEN IdleChain ELSE OffChain]
  /\ report = OffReport

Next ==
  \E c \in Chains :
    \/ CallAPI(c)
    \/ TokenResponse(c)
    \/ Dispatch(c)
    \/ ApiResponse(c)
    \/ WaitElapsed(c)

Spec == Init /\ [][Next]_vars

\* No call chain runs and no token is set.
Quiet ==
  /\ _access_token = NoToken
  /\ _grantless_tokens = [s \in ScopeInputs |-> NoToken]
  /\ _current_call_timeouts = InstanceTimeouts
  /\ issued = 0
  /\ chain = [c \in Chains |-> OffChain]
  /\ report = OffReport

(***************************************************************************)
(* downloadReport (844-850) with _createReport, _getReport, _cancelReport  *)
(* and _getReportDocument (435-507), each call of callAPI being a call     *)
(* chain of its own.                                                       *)
(***************************************************************************)
\* options.version of the report calls: req_params.version when truthy.
ReportVersions == {undefined, VersionIds[2]}
\* req_params.interval, in milliseconds (0: not given).
IntervalInputs == {0, 2000}
\* req_params.cancel_after (0: not given).
CancelAfterInputs == 0..MaxPolls

\* A plausible slip: the version of the download is not passed on.
ReportRequest_noVersion(operation, id, version) ==
  [EmptyRequest EXCEPT !.operation = <<"reports", operation>>, !.path = id]

\* The req_params _createReport, _getReport, _cancelReport and
\* _getReportDocument pass to callAPI.
ReportRequest(operation, id, version) ==
  [EmptyRequest EXCEPT !.operation = <<"reports", operation>>,
                       !.path = id,
                       !.options = [@ EXCEPT !.version = version]]

\* this.callAPI(...) of a report operation, up to its first await.
callReport(c, operation, id) ==
  Enter(c, ReportRequest(operation, id, report.req_params.version), IdleChain,
        _access_token, _grantless_tokens)

\* downloadReport returns or throws outcome; no call is made.
reportEnds(outcome) ==
  /\ report' = [report EXCEPT !.stage = "done", !.outcome = outcome]
  /\ UNCHANGED <<chain, _current_call_timeouts>>

\* downloadReport(req_params) up to the await in _createReport.
DownloadReport(c) ==
  /\ report.stage = "idle"
  /\ chain[c].pc = "idle"
  /\ \E version \in ReportVersions, interval \in IntervalInputs,
        cancel_after \in CancelAfterInputs :
       /\ report' = [report EXCEPT
            !.stage = "creating",
            !.req_params = [version |-> version, interval |-> interval,
                            cancel_after |-> cancel_after, tries |-> 0],
            !.log = Append(@, ReportEvent("createReport", undefined, undefined, 0))]
       /\ Enter(c, ReportRequest("createReport", undefined, version), IdleChain,
                _access_token, _grantless_tokens)
  /\ UNCHANGED <<configVars, versionVars, normVars, _access_token, _grantless_tokens, issued>>

\* _createReport's callAPI settles: downloadReport goes on to _getReport for
\* the reportId of the result (443, 847).
createReturns(c, res) ==
  IF res.kind = "throw"
  THEN reportEnds(res)
  ELSE /\ report' = [report EXCEPT
            !.stage = "polling",
            !.report_id = Get(res.value, "reportId"),
            !.log = Append(@, ReportEvent("getReport", Get(res.value, "reportId"), undefined, 0))]
       /\ callReport(c, "getReport", Get(res.value, "reportId"))

CreateReportReturns(c) ==
  /\ report.stage = "creating"
  /\ chain[c].pc = "settled"
  /\ createReturns(c, chain[c].outcome)
  /\ UNCHANGED <<configVars, versionVars, normVars, _access_token, _grantless_tokens, issued>>

\* A plausible slip: the interval of the call is ignored.
pollInterval_default(interval) == 10000

\* Line 482: req_params.interval || 10000
pollInterval(interval) == IF interval = 0 THEN 10000 ELSE interval

\* A plausible slip: the poll that reaches cancel_after still waits.
keepsPolling_inclusive(cancel_after, tries) == cancel_after = 0 \/ cancel_after >= tries

\* Line 483: !req_params.cancel_after || req_params.cancel_after > req_params.tries
keepsPolling(cancel_after, tries) == cancel_after = 0 \/ cancel_after > tries

\* Lines 476-492, for the incremented tries and the log with the status read.
pollAgain(c, tries, log) ==
  IF keepsPolling(report.req_params.cancel_after, tries)
  THEN /\ report' = [report EXCEPT
            !.stage = "waiting",
            !.req_params = [@ EXCEPT !.tries = tries],
            !.log = Append(log, ReportEvent("wait", undefined, undefined,
                                           pollInterval(report.req_params.interval)))]
       /\ UNCHANGED <<chain, _current_call_timeouts>>
  ELSE /\ report' = [report EXCEPT
            !.stage = "cancelling",
            !.req_params = [@ EXCEPT !.tries = tries],
            !.log = Append(log, ReportEvent("cancelReport", report.report_id, undefined, 0))]
       /\ callReport(c, "cancelReport", report.report_id)

\* A plausible slip: FATAL is not taken for a final status.
endsProcessing_cancelled(status) == status = "CANCELLED"

\* Line 470: ['CANCELLED', 'FATAL'].includes(res.processingStatus)
endsProcessing(status) == status \in {"CANCELLED", "FATAL"}

\* A plausible slip: the counter is left as it is.
nextTries_same(tries) == tries

\* Line 476, in the branch of a status that is neither DONE, CANCELLED nor
\* FATAL: req_params.tries++
nextTries(tries) == tries + 1

\* Lines 468-493 for the result of getReport, its processingStatus and the
\* log with that status.
statusRead(c, result, status, log) ==
  IF status = "DONE"
  THEN /\ report' = [report EXCEPT
            !.stage = "fetching",
            !.log = Append(log, ReportEvent("getReportDocument",
                                           Get(result, "reportDocumentId"), undefined, 0))]
       /\ callReport(c, "getReportDocument", Get(result, "reportDocumentId"))
  ELSE IF endsProcessing(status)
  THEN /\ report' = [report EXCEPT
            !.stage = "done",
            !.outcome = Throw("REPORT_PROCESSING_" \o status),
            !.log = log]
       /\ UNCHANGED <<chain, _current_call_timeouts>>
  ELSE pollAgain(c, nextTries(report.req_params.tries), log)

\* _getReport's callAPI settles.
getReportReturns(c, res) ==
  IF res.kind = "throw"
  THEN reportEnds(res)
  ELSE statusRead(c, res.value, Get(res.value, "processingStatus"),
         Append(report.log,
                ReportEvent("status", Get(res.value, "reportDocumentId"),
                            Get(res.value, "processingStatus"), 0)))

GetReportReturns(c) ==
  /\ report.stage = "polling"
  /\ chain[c].pc = "settled"
  /\ getReportReturns(c, chain[c].outcome)
  /\ UNCHANGED <<configVars, versionVars, normVars, _access_token, _grantless_tokens, issued>>

\* _getReport's _wait ends and _getReport is called again (484-485).
PollWaitElapsed(c) ==
  /\ report.stage = "waiting"
  /\ report' = [report EXCEPT
       !.stage = "polling",
       !.log = Append(@, ReportEvent("getReport", report.report_id, undefined, 0))]
  /\ callReport(c, "getReport", report.report_id)
  /\ UNCHANGED <<configVars, versionVars, normVars, _access_token, _grantless_tokens, issued>>

\* _cancelReport's callAPI settles: its error, or the error of line 488.
CancelReportReturns(c) ==
  /\ report.stage = "cancelling"
  /\ chain[c].pc = "settled"
  /\ reportEnds(IF chain[c].outcome.kind = "throw"
                THEN chain[c].outcome
                ELSE Throw("REPORT_PROCESSING_CANCELLED_MANUALLY"))
  /\ UNCHANGED <<configVars, versionVars, normVars, _access_token, _grantless_tokens, issued>>

\* _getReportDocument's callAPI settles: its result goes to download (849).
GetReportDocumentReturns(c) ==
  /\ report.stage = "fetching"
  /\ chain[c].pc = "settled"
  /\ IF chain[c].outcome.kind = "throw"
     THEN reportEnds(chain[c].outcome)
     ELSE /\ report' = [report EXCEPT !.stage = "downloading",
                                      !.report_document = chain[c].outcome.value]
          /\ UNCHANGED <<chain, _current_call_timeouts>>
  /\ UNCHANGED <<configVars, versionVars, normVars, _access_token, _grantless_tokens, issued>>

\* A plausible slip: the compression algorithm is not looked at.
_validateDocumentDetails_urlOnly(details) ==
  IF ~details.present \/ falsy(Get(details, "url"))
  THEN Throw("DOCUMENT_INFORMATION_MISSING")
  ELSE Return(details)

\* _validateDocumentDetails (170-185).
_validateDocumentDetails(details) ==
  IF ~details.present \/ falsy(Get(details, "url"))
  THEN Throw("DOCUMENT_INFORMATION_MISSING")
  ELSE IF ~falsy(Get(details, "compressionAlgorithm"))
          /\ Get(details, "compressionAlgorithm") # "GZIP"
  THEN Throw("UNKNOWN_ZIP_STANDARD")
  ELSE Return(details)

\* What download (748-808) gives for a valid document: the decoded content,
\* or one of its errors.
DownloadOutcomes ==
  {Return(Obj({<<"content", "report">>})), Throw("DOWNLOAD_ERROR"), Throw("DECODE_ERROR")}

\* download(report_document, ...) validates the document and settles.
Download(c) ==
  /\ report.stage = "downloading"
  /\ \E outcome \in DownloadOutcomes :
       reportEnds(IF _validateDocumentDetails(report.report_document).kind = "throw"
                  THEN _validateDocumentDetails(report.report_document)
                  ELSE outcome)
  /\ UNCHANGED <<configVars, versionVars, normVars, _access_token, _grantless_tokens, issued>>

(***************************************************************************)
(* SpecReport: one run of downloadReport against every remote behaviour.   *)
(***************************************************************************)
InitReport ==
  /\ endpoints = MainRegistry
  /\ _options = DefaultOptions
  /\ _endpoints_versions = [e \in DOMAIN endpoints |-> undefined]
  /\ vcall = [operation |-> <<>>, endpoint |-> undefined, version |-> undefined]
  /\ vresult = Pending
  /\ ncode = <<>> /\ normalized = <<>> /\ renormalized = <<>>
  /\ _access_token \in {NoToken, ConfigToken}
  /\ _grantless_tokens = [s \in ScopeInputs |-> NoToken]
  /\ _current_call_timeouts = InstanceTimeouts
  /\ issued = 0
  /\ chain = [c \in Chains |-> IF c = 1 THEN IdleChain ELSE OffChain]
  /\ report = IdleReport

NextReport ==
  \/ DownloadReport(1)
  \/ CreateReportReturns(1)
  \/ GetReportReturns(1)
  \/ PollWaitElapsed(1)
  \/ CancelReportReturns(1)
  \/ GetReportDocumentReturns(1)
  \/ Download(1)
  \/ TokenResponse(1)
  \/ Dispatch(1)
  \/ ApiResponse(1)
  \/ WaitElapsed(1)

SpecReport == InitReport /\ [][NextReport]_vars

(***************************************************************************)
(* SpecCalls: either one callAPI call or one run of downloadReport.        *)
(***************************************************************************)
InitCalls == Init \/ InitReport

NextCalls == Next \/ NextReport

SpecCalls == InitCalls /\ [][NextCalls]_vars

(***************************************************************************)
(* SpecVersion: version resolution over every registry, pin, explicit      *)
(* version and fallback setting.                                           *)
(***************************************************************************)
\* The operation strings and endpoints a caller passes.
OperationInputs ==
  {<<>>, <<"getReport">>, <<"cancelReport">>, <<"reports", "getReport">>,
   <<"reports", "cancelReport">>, <<"orders", "getReport">>, <<"getOrders">>}

EndpointInputs == {undefined, "reports"}

\* options.version: absent, a version of the registry's naming, or an unknown one.
VersionInputs ==
  {undefined, "1999-01-01"} \cup {VersionIds[i] : i \in 1..MaxVersions}

\* The pins _validateEndpointsVersions lets through (lines 103-125).
ValidPins(reg) ==
  [DOMAIN reg -> {undefined}] \cup
  UNION {{[e \in DOMAIN reg |-> IF e = ep THEN reg[ep].__versions[i] ELSE undefined] :
            i \in 1..Len(reg[ep].__versions)} : ep \in DOMAIN reg}

InitVersion ==
  /\ endpoints \in Registries
  /\ \E fb \in BOOLEAN : _options = [DefaultOptions EXCEPT !.version_fallback = fb]
  /\ _endpoints_versions \in ValidPins(endpoints)
  /\ vcall \in [operation : OperationInputs, endpoint : EndpointInputs,
                version : VersionInputs]
  /\ vresult = Pending
  /\ ncode = <<>> /\ normalized = <<>> /\ renormalized = <<>>
  /\ Quiet

ResolveVersion ==
  /\ vresult.kind = "pending"
  /\ vresult' = ResolveOperation(vcall.operation, vcall.endpoint, vcall.version)
  /\ UNCHANGED <<report, configVars, vcall, normVars, tokenVars, chain>>

NextVersion == ResolveVersion

SpecVersion == InitVersion /\ [][NextVersion]_vars

(***************************************************************************)
(* SpecNorm: the normalization applied to bounded codes, and applied again *)
(* to its own result.                                                      *)
(***************************************************************************)
NormAlphabet == {"Q", "X", "e", "_"}

RECURSIVE StringsUpTo(_)
StringsUpTo(n) ==
  IF n = 0 THEN {<<>>}
  ELSE LET shorter == StringsUpTo(n - 1)
       IN shorter \cup {Append(w, ch) : w \in shorter, ch \in NormAlphabet}

\* The remote codes explored: every string over NormAlphabet up to MaxCodeLen
\* and the two codes the specification names.
CodeInputs == StringsUpTo(MaxCodeLen) \cup {QuotaExceeded, InvalidInputXYZ}

InitNorm ==
  /\ endpoints \in {r \in Registries : Len(r["reports"].__versions) = 1
                                       /\ r["reports"].__operations = ReportOperations}
  /\ _options = DefaultOptions
  /\ _endpoints_versions = [e \in DOMAIN endpoints |-> undefined]
  /\ vcall = [operation |-> <<>>, endpoint |-> undefined, version |-> undefined]
  /\ vresult = Pending
  /\ ncode \in CodeInputs
  /\ normalized = <<>>
  /\ renormalized = <<>>
  /\ Quiet

\* callAPI throws the normalized code of the first error.
NormalizeCode ==
  /\ normalized = <<>>
  /\ normalized' = normalizeErrorCode(ncode)
  /\ UNCHANGED <<report, configVars, versionVars, ncode, renormalized, tokenVars, chain>>

\* The thrown code is itself normalized.
Renormalize ==
  /\ normalized # <<>>
  /\ renormalized = <<>>
  /\ renormalized' = normalizeErrorCode(normalized)
  /\ UNCHANGED <<report, configVars, versionVars, ncode, normalized, tokenVars, chain>>

NextNorm == NormalizeCode \/ Renormalize

SpecNorm == InitNorm /\ [][NextNorm]_vars

(***************************************************************************)
(* Claims about version resolution, checked under SpecVersion.             *)
(***************************************************************************)
\* The call passed _validateOperationAndEndpoint, and what it validated.
VValidated == _validateOperationAndEndpoint(vcall.operation, vcall.endpoint)
VEndpoint == VValidated.value.endpoint
VOperation == VValidated.value.operation
VVersions == endpoints[VEndpoint].__versions
\* The positions (in registry order) of the versions that define the operation.
VDefining == {i \in 1..Len(VVersions) : VOperation \in endpoints[VEndpoint].ops[VVersions[i]]}
\* The reference version: options.version when given, else the endpoint's pin.
VReference ==
  IF vcall.version # undefined THEN vcall.version ELSE _endpoints_versions[VEndpoint]
VPosition(v) == CHOOSE i \in 1..Len(VVersions) : VVersions[i] = v
VOlderDefining == {i \in VDefining : i < VPosition(VReference)}
SetMax(S) == CHOOSE x \in S : \A y \in S : y <= x
SetMin(S) == CHOOSE x \in S : \A y \in S : x <= y
\* The case of C1: a reference version of the endpoint that does not define the operation.
VFallbackCase ==
  /\ vresult.kind # "pending"
  /\ VValidated.kind = "return"
  /\ VReference # undefined
  /\ \E i \in 1..Len(VVersions) : VVersions[i] = VReference
  /\ VPosition(VReference) \notin VDefining

\* C1: when the reference version (explicit or pinned) does not define the
\* operation, resolution with version_fallback returns the nearest strictly
\* older version that defines it, never the reference or a newer one, and
\* throws OPERATION_NOT_FOUND_FOR_VERSION when there is none or when
\* version_fallback is disabled.
C1_FallbackNearestOlder ==
  VFallbackCase =>
    IF _options.version_fallback /\ VOlderDefining # {}
    THEN /\ vresult.kind = "return"
         /\ vresult.value.version = VVersions[SetMax(VOlderDefining)]
         /\ VPosition(vresult.value.version) < VPosition(VReference)
    ELSE /\ vresult.kind = "throw"
         /\ vresult.value = "OPERATION_NOT_FOUND_FOR_VERSION"

\* A pinned reference with two older defining versions: the nearer one was taken.
C1_Witness ==
  /\ VFallbackCase
  /\ vcall.version = undefined
  /\ Cardinality(VOlderDefining) >= 2
  /\ vresult.kind = "return"
  /\ vresult.value.version = "2021-06-30"

\* C2: with no explicit version and no pin, resolution returns the oldest
\* version (registry order) that defines the operation, whatever
\* version_fallback is.
C2_OldestWithoutPin ==
  (/\ vresult.kind # "pending"
   /\ VValidated.kind = "return"
   /\ vcall.version = undefined
   /\ _endpoints_versions[VEndpoint] = undefined)
  => /\ vresult.kind = "return"
     /\ VDefining # {}
     /\ vresult.value.version = VVersions[SetMin(VDefining)]

\* The operation is defined in 2021-06-30 and 2022-11-01 only, fallback is
\* off, and 2021-06-30 is returned.
C2_Witness ==
  /\ vresult.kind = "return"
  /\ VValidated.kind = "return"
  /\ vcall.version = undefined
  /\ _endpoints_versions[VEndpoint] = undefined
  /\ ~_options.version_fallback
  /\ VDefining = {2, 3}
  /\ vresult.value.version = "2021-06-30"


(***************************************************************************)
(* Claims about the error-code normalization, checked under SpecNorm.      *)
(***************************************************************************)
\* The positions of ncode at which the code is cut: upper-case, not the first.
NBoundaries(str) == {i \in 2..Len(str) : IsUpper(str[i])}
\* Where character i of the code lands in the normalized code.
NPosition(str, i) == i + Cardinality({j \in NBoundaries(str) : j <= i})
QUOTA_EXCEEDED == <<"Q", "U", "O", "T", "A", "_", "E", "X", "C", "E", "E", "D", "E", "D">>
INVALID_INPUT_X_Y_Z ==
  <<"I", "N", "V", "A", "L", "I", "D", "_", "I", "N", "P", "U", "T", "_",
    "X", "_", "Y", "_", "Z">>

\* C10 (as amended): the normalized code is the code upper-cased with exactly
\* one underscore inserted before every upper-case letter that is not its
\* first character (QuotaExceeded gives QUOTA_EXCEEDED, InvalidInputXYZ gives
\* INVALID_INPUT_X_Y_Z); normalizing a normalized code returns it unchanged
\* only if it has no letter A-Z after its first character.
C10_OneUnderscorePerBoundary ==
  /\ (normalized # <<>> /\ ncode # <<>>) =>
       /\ Len(normalized) = Len(ncode) + Cardinality(NBoundaries(ncode))
       /\ \A i \in 1..Len(ncode) :
            /\ normalized[NPosition(ncode, i)] = toUpperCaseChar(ncode[i])
            /\ i \in NBoundaries(ncode) => normalized[NPosition(ncode, i) - 1] = "_"
       /\ ncode = QuotaExceeded => normalized = QUOTA_EXCEEDED
       /\ ncode = InvalidInputXYZ => normalized = INVALID_INPUT_X_Y_Z
  /\ renormalized # <<>> =>
       (renormalized = normalized <=> NBoundaries(normalized) = {})

\* InvalidInputXYZ was normalized to INVALID_INPUT_X_Y_Z, and normalizing that
\* again changed it.
C10_Witness ==
  /\ ncode = InvalidInputXYZ
  /\ normalized = INVALID_INPUT_X_Y_Z
  /\ renormalized # <<>>
  /\ renormalized # normalized

\* C10 as stated: normalization is idempotent on already-normalized input,
\* QuotaExceeded gives QUOTA_EXCEEDED and InvalidInputXYZ gives
\* INVALID_INPUT_X_Y_Z.
C10_Original ==
  /\ (normalized # <<>> /\ ncode = QuotaExceeded) => normalized = QUOTA_EXCEEDED
  /\ (normalized # <<>> /\ ncode = InvalidInputXYZ) => normalized = INVALID_INPUT_X_Y_Z
  /\ renormalized # <<>> => renormalized = normalized

(***************************************************************************)
(* Claims about callAPI, checked under Spec.                               *)
(***************************************************************************)
\* The response is examined by callAPI's error classification: the call does
\* not ask for the raw result.
Examined(c) == ~chain[c].req_params.options.raw_result

\* The response carries the expiry signal of line 672: status 403, first
\* error Unauthorized, details telling that the access token expired.
ExpirySignal(res) ==
  /\ res.statusCode = 403
  /\ res.body.parses
  /\ Len(res.body.errors) > 0
  /\ res.body.errors[1].code = Unauthorized
  /\ matchesExpired(res.body.errors[1].details)

\* The response is a 429 whose first error is QuotaExceeded.
ThrottleSignal(res) ==
  /\ res.statusCode = 429
  /\ res.body.parses
  /\ Len(res.body.errors) > 0
  /\ res.body.errors[1].code = QuotaExceeded

\* Event i of chain c is a response callAPI examines and that satisfies Signal.
ResponseAt(c, i, Signal(_)) ==
  /\ chain[c].log[i].type = "api_response"
  /\ Examined(c)
  /\ Signal(chain[c].log[i].res)

\* What follows the expired-token response at i when tokens are requested
\* automatically.
RecoversAt(log, ch, i) ==
  /\ Len(log) > i
  /\ log[i + 1].type = "token_request"
  /\ log[i + 1].scope = ch.req_params.scope
  /\ Len(log) = i + 1 => ch.pc = "expired_refresh"
  /\ Len(log) > i + 1 =>
       /\ log[i + 2].type = "token_response"
       /\ log[i + 2].scope = ch.req_params.scope
       /\ IF log[i + 2].token = NoToken
          THEN /\ Len(log) = i + 2
               /\ ch.pc = "settled"
               /\ ch.outcome \in {refreshError(k) : k \in TokenResponseKinds \ {"access_token"}}
          ELSE /\ Len(log) > i + 2
               /\ log[i + 3].type = "enter"
               /\ Len(log) > i + 3 =>
                    /\ log[i + 4].type = "api_request"
                    /\ log[i + 4].scope = log[i - 1].scope
                    /\ log[i + 4].timeouts = log[i - 1].timeouts

\* C3: after a 403 response whose first error is Unauthorized and tells that
\* the access token expired, with auto_request_tokens exactly one token
\* request for the call's scope follows, and the request is dispatched again
\* only after that request was answered with a token (a refresh that fails
\* ends the call, nothing more is sent); without auto_request_tokens the call
\* fails with ACCESS_TOKEN_EXPIRED and sends nothing more.
C3_TokenExpiryRecovery ==
  \A c \in Chains : \A i \in 1..Len(chain[c].log) :
    ResponseAt(c, i, ExpirySignal) =>
      IF _options.auto_request_tokens
      THEN RecoversAt(chain[c].log, chain[c], i)
      ELSE /\ Len(chain[c].log) = i
           /\ chain[c].pc = "settled"
           /\ chain[c].outcome = Throw("ACCESS_TOKEN_EXPIRED")

\* An expired token was refreshed and the request dispatched again with the
\* new token.
C3_Witness ==
  \E i \in 1..Len(chain[1].log) :
    /\ ResponseAt(1, i, ExpirySignal)
    /\ Len(chain[1].log) >= i + 4
    /\ chain[1].log[i + 2].token >= FirstIssuedToken
    /\ chain[1].log[i + 4].type = "api_request"
    /\ chain[1].log[i + 4].token = chain[1].log[i + 2].token

\* The header is present and numeric.
Numeric(header) == header \in {"2", "4"}

\* C4: when a 429 QuotaExceeded response is retried, the wait before the
\* re-dispatch is 1 / header seconds when x-amzn-ratelimit-limit is present
\* and numeric, otherwise the request's restore_rate, otherwise there is no
\* wait; after the wait the identical request is issued again.
C4_ThrottleDelay ==
  \A c \in Chains : \A i \in 1..Len(chain[c].log) :
    (ResponseAt(c, i, ThrottleSignal) /\ _options.auto_request_throttled) =>
      LET log == chain[c].log
          header == log[i].res.ratelimit
          restore_rate == chain[c].req_params.restore_rate
          reenter == IF Numeric(header) \/ restore_rate # NoRate THEN i + 2 ELSE i + 1
      IN /\ Len(log) > i
         /\ IF Numeric(header)
            THEN log[i + 1] = WaitEvent(Seconds(1000 \div toNumber(header)))
            ELSE IF restore_rate # NoRate
            THEN log[i + 1] = WaitEvent(Seconds(restore_rate))
            ELSE log[i + 1].type = "enter"
         /\ Len(log) >= reenter => log[reenter].type = "enter"
         /\ Len(log) > reenter => log[reenter + 1] = log[i - 1]

\* A throttled response with a header that is no number was retried after a
\* wait of NaN seconds although the request has a restore_rate.
C4_Witness ==
  \E i \in 1..Len(chain[1].log) :
    /\ ResponseAt(1, i, ThrottleSignal)
    /\ chain[1].log[i].res.ratelimit = "abc"
    /\ chain[1].req_params.restore_rate # NoRate
    /\ Len(chain[1].log) > i + 2
    /\ chain[1].log[i + 1] = WaitEvent(NaN)
    /\ chain[1].log[i + 3].type = "api_request"

\* The errors callAPI throws before it reaches _validateAccessToken.
BeforeGateErrors ==
  {"NO_VALID_METHOD_PROVIDED", "NO_OPERATION_GIVEN", "NO_ENDPOINT_GIVEN",
   "ENDPOINT_NOT_FOUND", "INVALID_OPERATION_FOR_ENDPOINT", "INVALID_VERSION",
   "OPERATION_NOT_FOUND_FOR_VERSION", "INVALID_OPERATION_ERROR"}

\* The token for scope is in its slot.
SlotFilled(access_token, grantless_tokens, scope) ==
  IF scope = undefined THEN access_token # NoToken ELSE grantless_tokens[scope] # NoToken

\* This step takes chain c into callAPI and up to _validateAccessToken: the
\* position of the entry in the new log, or 0.
GateEntry(c) ==
  LET entries == {j \in (Len(chain[c].log) + 1)..Len(chain'[c].log) :
                    chain'[c].log[j].type = "enter"}
  IN IF \/ entries = {}
        \/ (chain'[c].pc = "settled" /\ chain'[c].outcome.value \in BeforeGateErrors)
     THEN 0
     ELSE CHOOSE j \in entries : TRUE

\* The gate's decision in a step that enters callAPI at position j of the log.
GateDecision(c, j) ==
  LET log == chain'[c].log
      scope == chain'[c].req_params.scope
  IN IF SlotFilled(_access_token', _grantless_tokens', scope)
     THEN Len(log) = j /\ chain'[c].pc = "gated"
     ELSE IF ~_options.auto_request_tokens
     THEN /\ Len(log) = j
          /\ chain'[c].pc = "settled"
          /\ chain'[c].outcome = Throw("NO_ACCESS_TOKEN_PRESENT")
     ELSE IF scope # undefined /\ scope \notin valid_scopes
     THEN /\ Len(log) = j
          /\ chain'[c].pc = "settled"
          /\ chain'[c].outcome = Throw("INVALID_SCOPE_ERROR")
     ELSE /\ Len(log) = j + 1
          /\ log[j + 1].type = "token_request"
          /\ log[j + 1].scope = scope
          /\ chain'[c].pc = "gate_refresh"

\* Every dispatch follows its entry directly, or after one answered token
\* request for its scope.
OneRefreshBeforeDispatch ==
  \A c \in Chains : \A j \in 1..Len(chain[c].log) :
    chain[c].log[j].type = "api_request" =>
      \/ chain[c].log[j - 1].type = "enter"
      \/ /\ j > 3
         /\ chain[c].log[j - 1].type = "token_response"
         /\ chain[c].log[j - 1].token # NoToken
         /\ chain[c].log[j - 2].type = "token_request"
         /\ chain[c].log[j - 2].scope = chain[c].log[j].scope
         /\ chain[c].log[j - 3].type = "enter"

\* C7: at the token gate, when the token for the call's scope exists no token
\* request is issued; when it is missing and auto_request_tokens is set,
\* exactly one token request for that scope is issued before the dispatch;
\* when it is missing and auto_request_tokens is not set the call fails with
\* NO_ACCESS_TOKEN_PRESENT and sends neither a token request nor an API
\* request.
C7_TokenGate ==
  /\ []OneRefreshBeforeDispatch
  /\ [][\A c \in Chains : GateEntry(c) # 0 => GateDecision(c, GateEntry(c))]_vars

\* A scoped call found the default token set and its own slot empty, requested
\* a token for its scope and was dispatched with it.
C7_Witness ==
  /\ Len(chain[1].log) >= 4
  /\ chain[1].req_params.scope = NotificationsScope
  /\ _access_token = ConfigToken
  /\ chain[1].log[2].type = "token_request"
  /\ chain[1].log[2].scope = NotificationsScope
  /\ chain[1].log[4].type = "api_request"

\* C8: with only_grantless_operations, a callAPI whose built request has no
\* scope fails with INVALID_OPERATION_ERROR before any token request and any
\* dispatch, and the default token and the scoped tokens stay as they were.
C8_GrantlessOnlyGate ==
  \A c \in Chains :
    (/\ _options.only_grantless_operations
     /\ chain[c].req_params # EmptyRequest
     /\ chain[c].req_params.scope = undefined)
    => /\ chain[c].pc = "settled"
       /\ chain[c].outcome = Throw("INVALID_OPERATION_ERROR")
       /\ chain[c].log = <<EnterEvent>>
       /\ issued = 0
       /\ _access_token \in {NoToken, ConfigToken}
       /\ _grantless_tokens = [s \in ScopeInputs |-> NoToken]

\* An unscoped call was refused although a default token is set and tokens
\* are requested automatically.
C8_Witness ==
  /\ _options.only_grantless_operations
  /\ _options.auto_request_tokens
  /\ _access_token = ConfigToken
  /\ chain[1].req_params.operation = <<"reports", "getReport">>
  /\ chain[1].req_params.scope = undefined
  /\ chain[1].outcome = Throw("INVALID_OPERATION_ERROR")

\* The bearer the claim prescribes for a request.
PrescribedBearer(req_params) ==
  IF req_params.scope # undefined THEN _grantless_tokens[req_params.scope]
  ELSE IF req_params.restricted_data_token # NoToken
  THEN req_params.restricted_data_token
  ELSE _access_token

\* No dispatched request with a scope carries the configured default token
\* or a restricted data token.
ScopedNeverDefault ==
  \A c \in Chains : \A j \in 1..Len(chain[c].log) :
    (chain[c].log[j].type = "api_request" /\ chain[c].log[j].scope # undefined)
    => chain[c].log[j].token >= FirstIssuedToken

\* C9: every dispatched request carries the scoped token of its scope when it
\* has a scope, else the restricted data token when one is supplied, else the
\* default access token; a scoped request never carries the default token or
\* a restricted data token.
C9_BearerSelection ==
  /\ []ScopedNeverDefault
  /\ [][\A c \in Chains :
          (chain[c].pc = "gated" /\ chain'[c].pc = "dispatched") =>
            LET request == chain'[c].log[Len(chain'[c].log)]
            IN /\ request.type = "api_request"
               /\ request.token = PrescribedBearer(chain[c].req_params)
               /\ chain[c].req_params.scope # undefined =>
                    /\ request.token # chain[c].req_params.restricted_data_token
                    /\ request.token # _access_token]_vars

\* A scoped request that came with a restricted data token, while a default
\* token is set, was dispatched with the token issued for its scope.
C9_Witness ==
  \E j \in 1..Len(chain[1].log) :
    /\ chain[1].log[j].type = "api_request"
    /\ chain[1].log[j].scope = NotificationsScope
    /\ chain[1].req_params.restricted_data_token = RestrictedDataToken
    /\ _access_token = ConfigToken
    /\ chain[1].log[j].token = _grantless_tokens[NotificationsScope]
    /\ chain[1].log[j].token >= FirstIssuedToken

(***************************************************************************)
(* Claims about the report poller, checked under SpecReport.               *)
(***************************************************************************)
\* The positions of the run's log with an event of this type.
ReportEvents(type) == {j \in 1..Len(report.log) : report.log[j].type = type}
\* The statuses read that are neither DONE nor CANCELLED nor FATAL.
PendingRead ==
  {j \in ReportEvents("status") : report.log[j].status \notin {"DONE", "CANCELLED", "FATAL"}}
DoneRead == {j \in ReportEvents("status") : report.log[j].status = "DONE"}

\* C5: without cancel_after, when k statuses that are not terminal were
\* followed by DONE, the poller made exactly k+1 status calls, separated by
\* exactly k waits of the configured interval (10000 ms when none is
\* configured), never made a cancel call, and went on with the
\* reportDocumentId of the DONE response.
C5_PollingWithoutCancelAfter ==
  report.req_params.cancel_after = 0 =>
    /\ ReportEvents("cancelReport") = {}
    /\ DoneRead # {} =>
         /\ Cardinality(ReportEvents("getReport")) = Cardinality(PendingRead) + 1
         /\ Cardinality(ReportEvents("wait")) = Cardinality(PendingRead)
         /\ \A j \in ReportEvents("wait") :
              /\ report.log[j].ms = IF report.req_params.interval = 0
                                    THEN 10000 ELSE report.req_params.interval
              /\ j - 1 \in PendingRead
              /\ j + 1 \in ReportEvents("getReport")
         /\ \A j \in ReportEvents("getReport") : j > 2 => j - 1 \in ReportEvents("wait")
         /\ \A d \in DoneRead :
              /\ d < Len(report.log)
              /\ report.log[d + 1] =
                   ReportEvent("getReportDocument", report.log[d].id, undefined, 0)

\* IN_PROGRESS, IN_PROGRESS, DONE with no interval configured: two waits of
\* 10000 ms, and the document d2 of the DONE response is fetched.
C5_Witness ==
  /\ report.req_params.cancel_after = 0
  /\ report.req_params.interval = 0
  /\ Len(report.log) = 10
  /\ report.log[3].status = "IN_PROGRESS"
  /\ report.log[6].status = "IN_PROGRESS"
  /\ report.log[9].status = "DONE"
  /\ report.log[9].id = "d2"
  /\ Cardinality(ReportEvents("wait")) = 2
  /\ report.log[4].ms = 10000
  /\ report.log[10].type = "getReportDocument"
  /\ report.log[10].id = "d2"
  /\ report.stage = "done"
  /\ report.outcome.kind = "return"

\* C6: with cancel_after = N >= 1 at most N status calls are made; when the
\* N-th status read is still not terminal, exactly one cancelReport call for
\* the report's id follows it directly, with no further wait and no document
\* fetch, and only when that call has settled the run fails, with
\* REPORT_PROCESSING_CANCELLED_MANUALLY after N tries (with the error of the
\* cancel call when that call failed).
C6_PollingWithCancelAfter ==
  report.req_params.cancel_after >= 1 =>
    /\ Cardinality(ReportEvents("getReport")) <= report.req_params.cancel_after
    /\ Cardinality(PendingRead) <= report.req_params.cancel_after
    /\ Cardinality(PendingRead) < report.req_params.cancel_after =>
         ReportEvents("cancelReport") = {}
    /\ Cardinality(PendingRead) = report.req_params.cancel_after =>
         /\ ReportEvents("cancelReport") = {Len(report.log)}
         /\ report.log[Len(report.log)].id = report.report_id
         /\ report.report_id = report.log[2].id
         /\ Len(report.log) - 1 \in PendingRead
         /\ Cardinality(ReportEvents("wait")) = report.req_params.cancel_after - 1
         /\ ReportEvents("getReportDocument") = {}
         /\ report.req_params.tries = report.req_params.cancel_after
         /\ chain[1].req_params.operation = <<"reports", "cancelReport">>
         /\ chain[1].req_params.path = report.report_id
         /\ report.stage \in {"cancelling", "done"}
         /\ report.stage = "cancelling" => report.outcome.kind = "pending"
         /\ report.stage = "done" =>
              /\ chain[1].pc = "settled"
              /\ report.outcome.kind = "throw"
              /\ report.outcome.value =
                   IF chain[1].outcome.kind = "throw"
                   THEN chain[1].outcome.value
                   ELSE "REPORT_PROCESSING_CANCELLED_MANUALLY"

\* cancel_after = 1: one status call, IN_PROGRESS, the cancel call, and the
\* run failed with REPORT_PROCESSING_CANCELLED_MANUALLY after 1 try.
C6_Witness ==
  /\ report.req_params.cancel_after = 1
  /\ Cardinality(ReportEvents("getReport")) = 1
  /\ Len(report.log) = 4
  /\ report.log[3].status = "IN_PROGRESS"
  /\ report.log[4].type = "cancelReport"
  /\ chain[1].outcome.kind = "return"
  /\ report.stage = "done"
  /\ report.outcome = Throw("REPORT_PROCESSING_CANCELLED_MANUALLY")
  /\ report.req_params.tries = 1

(***************************************************************************)
(* Claims about retries, checked under SpecCalls.                          *)
(***************************************************************************)
\* The response at position i of chain c's log is one callAPI retries: it is
\* examined, and throttled with auto_request_throttled or token-expired with
\* auto_request_tokens.
RetriedAt(c, i) ==
  \/ ResponseAt(c, i, ThrottleSignal) /\ _options.auto_request_throttled
  \/ ResponseAt(c, i, ExpirySignal) /\ _options.auto_request_tokens

\* The positions of chain c's log with a retried response.
Retried(c) == {i \in 1..Len(chain[c].log) : RetriedAt(c, i)}

\* A retried response never ends the call, however many came before it: the
\* wait, the re-entry or the token request follows; every other response
\* ends it at once.
RetriesWithoutLimit ==
  \A c \in Chains : \A i \in 1..Len(chain[c].log) :
    chain[c].log[i].type = "api_response" =>
      IF RetriedAt(c, i)
      THEN /\ Len(chain[c].log) > i
           /\ chain[c].log[i + 1].type \in {"wait", "enter", "token_request"}
           /\ Len(chain[c].log) = i + 1 => chain[c].pc # "settled"
      ELSE Len(chain[c].log) = i /\ chain[c].pc = "settled"

\* A call that settled after a dispatch did so on a response that is not
\* retried, or on a token response without a token.
SettlesOnOtherResponse ==
  \A c \in Chains :
    (chain[c].pc = "settled" /\ \E i \in 1..Len(chain[c].log) :
                                  chain[c].log[i].type = "api_request") =>
      LET last == chain[c].log[Len(chain[c].log)]
      IN \/ last.type = "api_response" /\ ~RetriedAt(c, Len(chain[c].log))
         \/ last.type = "token_response" /\ last.token = NoToken

\* The poller is bounded by cancel_after alone: without it every pending
\* status is followed by a wait and another status call; with it no more
\* than cancel_after status calls are made.
PollerBoundedByCancelAfter ==
  IF report.req_params.cancel_after = 0
  THEN \A j \in PendingRead :
         /\ j < Len(report.log)
         /\ report.log[j + 1].type = "wait"
         /\ j + 1 < Len(report.log) => report.log[j + 2].type = "getReport"
         /\ j + 1 = Len(report.log) => report.stage = "waiting"
  ELSE Cardinality(ReportEvents("getReport")) <= report.req_params.cancel_after

\* C11: with the retries enabled, callAPI dispatches again after every
\* throttled and every token-expired response, however many there were, and
\* settles only on a response that is neither (or on a failed refresh); the
\* only loop with a bound is the report poller's, when cancel_after is set.
C11_RetryWithoutLimit ==
  /\ RetriesWithoutLimit
  /\ SettlesOnOtherResponse
  /\ PollerBoundedByCancelAfter

\* After MaxRetries retried responses, throttled ones and a token-expired one
\* among them, the request was dispatched once more.
C11_Witness ==
  /\ Cardinality(Retried(1)) = MaxRetries
  /\ \E i \in Retried(1) : ThrottleSignal(chain[1].log[i].res)
  /\ \E i \in Retried(1) : ExpirySignal(chain[1].log[i].res)
  /\ chain[1].log[Len(chain[1].log)].type = "api_request"

(***************************************************************************)
(* Further claims about callAPI, checked under Spec.                       *)
(***************************************************************************)
\* C12: without auto_request_throttled, a 429 response whose first error is
\* QuotaExceeded makes callAPI fail with QUOTA_EXCEEDED carrying the value of
\* the x-amzn-ratelimit-limit header (undefined when absent), with no wait
\* and no further dispatch.
C12_QuotaExceededMetadata ==
  \A c \in Chains : \A i \in 1..Len(chain[c].log) :
    (ResponseAt(c, i, ThrottleSignal) /\ ~_options.auto_request_throttled) =>
      /\ Len(chain[c].log) = i
      /\ chain[c].pc = "settled"
      /\ chain[c].outcome = Throw("QUOTA_EXCEEDED")
      /\ chain[c].timeout = chain[c].log[i].res.ratelimit

\* A throttled response with header 4 ended the call with QUOTA_EXCEEDED and
\* timeout 4.
C12_Witness ==
  /\ ~_options.auto_request_throttled
  /\ Len(chain[1].log) = 3
  /\ ResponseAt(1, 3, ThrottleSignal)
  /\ chain[1].log[3].res.ratelimit = "4"
  /\ chain[1].outcome = Throw("QUOTA_EXCEEDED")
  /\ chain[1].timeout = "4"

(***************************************************************************)
(* Further claims about the report poller, checked under SpecReport.       *)
(***************************************************************************)
\* C13: a status CANCELLED or FATAL ends the polling at once with
\* REPORT_PROCESSING_CANCELLED or REPORT_PROCESSING_FATAL: no status call, no
\* wait, no cancelReport call and no getReportDocument call follows, whatever
\* cancel_after is.
C13_CancelledOrFatalEndsPolling ==
  \A j \in ReportEvents("status") :
    report.log[j].status \in {"CANCELLED", "FATAL"} =>
      /\ j = Len(report.log)
      /\ report.stage = "done"
      /\ report.outcome =
           Throw(IF report.log[j].status = "CANCELLED"
                 THEN "REPORT_PROCESSING_CANCELLED" ELSE "REPORT_PROCESSING_FATAL")
      /\ ReportEvents("cancelReport") = {}
      /\ ReportEvents("getReportDocument") = {}
      /\ report.req_params.tries = Cardinality(PendingRead)

\* With cancel_after = 2 the second status read was FATAL: the run failed
\* with REPORT_PROCESSING_FATAL after one wait and without a cancel call.
C13_Witness ==
  /\ report.req_params.cancel_after = 2
  /\ Len(report.log) = 6
  /\ report.log[3].status = "IN_QUEUE"
  /\ report.log[6].status = "FATAL"
  /\ report.stage = "done"
  /\ report.outcome = Throw("REPORT_PROCESSING_FATAL")

\* The positions of chain c's log with an event of this type.
ChainEvents(c, type) == {i \in 1..Len(chain[c].log) : chain[c].log[i].type = type}

\* C14: with options.raw_result callAPI returns the response as the transport
\* gave it, whatever its status and body (204, token-expired and throttled
\* responses and bodies that do not parse included): the call makes exactly
\* one dispatch, and no token request, wait or re-entry follows it.
C14_RawResult ==
  \A c \in Chains :
    (chain[c].req_params.options.raw_result /\ ChainEvents(c, "api_response") # {}) =>
      /\ ChainEvents(c, "api_response") = {Len(chain[c].log)}
      /\ ChainEvents(c, "api_request") = {Len(chain[c].log) - 1}
      /\ ChainEvents(c, "wait") = {}
      /\ ChainEvents(c, "enter") = {1}
      /\ \A i \in ChainEvents(c, "token_request") : i < Len(chain[c].log) - 1
      /\ chain[c].pc = "settled"
      /\ chain[c].outcome.kind = "return"
      /\ chain[c].outcome.value = chain[c].log[Len(chain[c].log)].res

\* With both retries enabled a raw_result call returned the token-expired 403
\* response itself.
C14_Witness ==
  /\ _options.auto_request_tokens
  /\ _options.auto_request_throttled
  /\ chain[1].req_params.options.raw_result
  /\ chain[1].pc = "settled"
  /\ chain[1].outcome.kind = "return"
  /\ chain[1].outcome.value = TokenExpiredResponse

\* The names of an object's fields.
Names(object) == {p[1] : p \in object.fields}

\* The response is parsed and carries no error: not a 204, a body that
\* parses, an empty errors list.
SuccessSignal(res) ==
  /\ res.statusCode # 204
  /\ res.body.parses
  /\ Len(res.body.errors) = 0

\* C15: for a parsed non-204 response without errors callAPI returns, when
\* pagination and payload are both present, one object with every field name
\* of both (a payload field with its value, a pagination field with its value
\* unless the payload has a field of that name); otherwise the payload when
\* present; otherwise the whole parsed body.
C15_SuccessShaping ==
  \A c \in Chains : \A i \in 1..Len(chain[c].log) :
    ResponseAt(c, i, SuccessSignal) =>
      LET body == chain[c].log[i].res.body
          value == chain[c].outcome.value
      IN /\ Len(chain[c].log) = i
         /\ chain[c].pc = "settled"
         /\ chain[c].outcome.kind = "return"
         /\ value.present
         /\ IF body.pagination.present /\ body.payload.present
            THEN /\ Names(value) = Names(body.pagination) \cup Names(body.payload)
                 /\ body.payload.fields \subseteq value.fields
                 /\ \A p \in body.pagination.fields :
                      p[1] \notin Names(body.payload) => p \in value.fields
            ELSE IF body.payload.present
            THEN value = body.payload
            ELSE /\ body.fields \subseteq value.fields
                 /\ \A p \in body.pagination.fields :
                      <<"pagination." \o p[1], p[2]>> \in value.fields
                 /\ Cardinality(value.fields) =
                      Cardinality(body.fields) + Cardinality(body.pagination.fields)

\* A body with payload {items: i1} and pagination {nextToken: n1, items: i0}
\* was returned as {nextToken: n1, items: i1}.
C15_Witness ==
  /\ chain[1].pc = "settled"
  /\ chain[1].outcome.kind = "return"
  /\ ~chain[1].req_params.options.raw_result
  /\ Len(chain[1].log) >= 3
  /\ chain[1].log[Len(chain[1].log)].res.body.pagination.present
  /\ chain[1].log[Len(chain[1].log)].res.body.payload.present
  /\ chain[1].outcome.value = Obj({<<"nextToken", "n1">>, <<"items", "i1">>})

\* The response is parsed and carries errors.
ErrorSignal(res) ==
  /\ res.statusCode # 204
  /\ res.body.parses
  /\ Len(res.body.errors) > 0

\* The code callAPI is to throw for a remote code it does not handle itself.
NormalizedCodes ==
  {<<Unauthorized, "UNAUTHORIZED">>, <<QuotaExceeded, "QUOTA_EXCEEDED">>,
   <<InternalFailure, "INTERNAL_FAILURE">>, <<InvalidInput, "INVALID_INPUT">>,
   <<<<>>, "UNKNOWN_ERROR">>}

\* The call ended on the response at position i of its log, throwing code.
ThrownAt(c, i, code) ==
  /\ Len(chain[c].log) = i
  /\ chain[c].pc = "settled"
  /\ chain[c].outcome = Throw(code)

\* C16: the classification reads the first error of the list only, and in
\* this order: 403 Unauthorized with the expiry text is the token-expired
\* case, 429 QuotaExceeded the throttled case, InternalFailure with
\* use_sandbox fails with INVALID_SANDBOX_PARAMETERS, and every other error
\* fails with the normalized remote code (INTERNAL_FAILURE for
\* InternalFailure outside sandbox mode).
C16_ErrorClassification ==
  \A c \in Chains : \A i \in 1..Len(chain[c].log) :
    ResponseAt(c, i, ErrorSignal) =>
      LET res == chain[c].log[i].res
          error == res.body.errors[1]
      IN IF /\ res.statusCode = 403
            /\ error.code = Unauthorized
            /\ matchesExpired(error.details)
         THEN IF _options.auto_request_tokens
              THEN Len(chain[c].log) > i /\ chain[c].log[i + 1].type = "token_request"
              ELSE ThrownAt(c, i, "ACCESS_TOKEN_EXPIRED")
         ELSE IF res.statusCode = 429 /\ error.code = QuotaExceeded
         THEN IF _options.auto_request_throttled
              THEN Len(chain[c].log) > i /\ chain[c].log[i + 1].type \in {"wait", "enter"}
              ELSE ThrownAt(c, i, "QUOTA_EXCEEDED")
         ELSE IF error.code = InternalFailure /\ _options.use_sandbox
         THEN ThrownAt(c, i, "INVALID_SANDBOX_PARAMETERS")
         ELSE \E n \in NormalizedCodes : n[1] = error.code /\ ThrownAt(c, i, n[2])

\* In sandbox mode a 500 InternalFailure response ended the call with
\* INVALID_SANDBOX_PARAMETERS.
C16_Witness ==
  /\ _options.use_sandbox
  /\ Len(chain[1].log) = 3
  /\ ResponseAt(1, 3, ErrorSignal)
  /\ chain[1].log[3].res.body.errors[1].code = InternalFailure
  /\ chain[1].outcome = Throw("INVALID_SANDBOX_PARAMETERS")

(***************************************************************************)
(* The explicit version, checked under SpecVersion.                        *)
(***************************************************************************)
\* The call passed _validateOperationAndEndpoint and gave options.version.
VExplicitCase ==
  /\ vresult.kind # "pending"
  /\ VValidated.kind = "return"
  /\ vcall.version # undefined

\* The positions of the defining versions strictly older than options.version.
VOlderThanExplicit == {i \in VDefining : i < VPosition(vcall.version)}

\* C17: an explicit options.version that is not among the endpoint's versions
\* fails with INVALID_VERSION whatever the pin and version_fallback are; a
\* valid one decides the resolution alone (itself when it defines the
\* operation, else its fallback), so the pin has no influence on the result.
C17_ExplicitVersionDecides ==
  VExplicitCase =>
    IF \A i \in 1..Len(VVersions) : VVersions[i] # vcall.version
    THEN vresult = Throw("INVALID_VERSION")
    ELSE IF VPosition(vcall.version) \in VDefining
    THEN /\ vresult.kind = "return"
         /\ vresult.value.version = vcall.version
    ELSE IF _options.version_fallback /\ VOlderThanExplicit # {}
    THEN /\ vresult.kind = "return"
         /\ vresult.value.version = VVersions[SetMax(VOlderThanExplicit)]
    ELSE vresult = Throw("OPERATION_NOT_FOUND_FOR_VERSION")

\* The endpoint is pinned to 2020-01-01, the call asks for 2022-11-01, both
\* define the operation, and 2022-11-01 is the resolved version.
C17_Witness ==
  /\ VExplicitCase
  /\ vcall.version = "2022-11-01"
  /\ _endpoints_versions[VEndpoint] = "2020-01-01"
  /\ {1, 3} \subseteq VDefining
  /\ vresult.kind = "return"
  /\ vresult.value.version = "2022-11-01"

\* An unknown explicit version failed although the endpoint is pinned and
\* version_fallback is on.
C17_InvalidVersionReached ==
  /\ VExplicitCase
  /\ vcall.version = "1999-01-01"
  /\ _endpoints_versions[VEndpoint] # undefined
  /\ _options.version_fallback
  /\ vresult = Throw("INVALID_VERSION")

(***************************************************************************)
(* SpecReportVersions: runs of downloadReport over registries whose        *)
(* versions define different report operations, every pin and both         *)
(* version_fallback settings.                                              *)
(***************************************************************************)
\* A reports endpoint whose two versions share getReport only.
SplitRegistry ==
  [e \in {"reports", "notifications"} |->
     IF e = "reports"
     THEN EndpointEntry(2, [v \in {VersionIds[1], VersionIds[2]} |->
            IF v = VersionIds[1]
            THEN {"getReport", "getReportDocument"}
            ELSE {"createReport", "getReport", "cancelReport"}])
     ELSE MainRegistry[e]]

ReportRegistries == {MainRegistry, SplitRegistry}

\* The pins of the reports endpoint.
ReportPins(reg) == {pin \in ValidPins(reg) : pin["notifications"] = undefined}

InitReportVersions ==
  /\ endpoints \in ReportRegistries
  /\ \E fb \in BOOLEAN : _options = [DefaultOptions EXCEPT !.version_fallback = fb]
  /\ _endpoints_versions \in ReportPins(endpoints)
  /\ vcall = [operation |-> <<>>, endpoint |-> undefined, version |-> undefined]
  /\ vresult = Pending
  /\ ncode = <<>> /\ normalized = <<>> /\ renormalized = <<>>
  /\ _access_token = NoToken
  /\ _grantless_tokens = [s \in ScopeInputs |-> NoToken]
  /\ _current_call_timeouts = InstanceTimeouts
  /\ issued = 0
  /\ chain = [c \in Chains |-> IF c = 1 THEN IdleChain ELSE OffChain]
  /\ report = IdleReport

SpecReportVersions == InitReportVersions /\ [][NextReport]_vars

\* The chain is a report call that passed callAPI's build phase.
BuiltReportCall(ch) ==
  /\ ch.pc \notin {"off", "idle"}
  /\ ch.req_params.api_path # <<>>

\* The API version and the operation a built call goes to.
VersionOf(ch) == ch.req_params.api_path[2]
OperationOf(ch) == ch.req_params.api_path[3]

\* The version the run's calls refer to: the download's version, else the pin.
ReportReference ==
  IF report.req_params.version # undefined
  THEN report.req_params.version
  ELSE _endpoints_versions["reports"]

\* C18 (as stated): in one report download every call resolves to the API
\* version of the call before it, hence all to the same one.
C18_Original ==
  [][(/\ BuiltReportCall(chain[1])
      /\ BuiltReportCall(chain'[1])
      /\ Len(report'.log) = Len(report.log) + 1
      /\ report'.log[Len(report'.log)].type \in AllReportOperations)
     => VersionOf(chain'[1]) = VersionOf(chain[1])]_vars

\* C18 (amended): every call of one report download is made with the
\* download's version as its options.version, and resolves to the version
\* the run refers to (the download's version, else the pin) whenever that
\* version defines the call's operation; the calls resolve to one version
\* when it defines all of their operations.
C18_VersionThreaded ==
  (report.stage \notin {"off", "idle"} /\ BuiltReportCall(chain[1])) =>
    /\ chain[1].req_params.options.version = report.req_params.version
    /\ (/\ ReportReference # undefined
        /\ HasOperation("reports", ReportReference, OperationOf(chain[1])))
       => VersionOf(chain[1]) = ReportReference

\* The download asked for 2021-06-30, which does not define
\* getReportDocument: createReport and getReport went to 2021-06-30 and
\* getReportDocument goes to 2020-01-01.
C18_Witness ==
  /\ endpoints = SplitRegistry
  /\ report.req_params.version = "2021-06-30"
  /\ report.stage = "fetching"
  /\ BuiltReportCall(chain[1])
  /\ chain[1].req_params.options.version = "2021-06-30"
  /\ VersionOf(chain[1]) = "2020-01-01"

\* With a registry whose versions all define the four operations and the
\* download's version given, getReportDocument goes to that version.
C18_SameVersionReached ==
  /\ endpoints = MainRegistry
  /\ report.req_params.version = "2021-06-30"
  /\ _endpoints_versions["reports"] = "2020-01-01"
  /\ report.stage = "fetching"
  /\ BuiltReportCall(chain[1])
  /\ VersionOf(chain[1]) = "2021-06-30"

(***************************************************************************)
(* SpecRefresh: refreshAccessToken (558-594) called by the user, again and *)
(* again, for every scope and every answer of the authorization endpoint.  *)
(* A chain holds one call: req_params.scope is its scope, pc is            *)
(* "refreshing" while it awaits the token response.                        *)
(***************************************************************************)
\* The body of a token response: whether it parses, its access_token
\* (NoToken: none), its error and error_description (undefined: none) and
\* its text.
TokenBody(parses, access_token, error, error_description, text) ==
  [parses |-> parses, access_token |-> access_token, error |-> error,
   error_description |-> error_description, text |-> text]

\* The answers of the authorization endpoint when token is the next token.
RefreshResponses(token) ==
  {TokenBody(FALSE, NoToken, undefined, undefined, "<html>"),
   TokenBody(TRUE, token, undefined, undefined, "{access_token}"),
   TokenBody(TRUE, token, "warning", "Deprecated.", "{access_token,error}"),
   TokenBody(TRUE, NoToken, "invalid_grant", "The grant is invalid.", "{error}"),
   TokenBody(TRUE, NoToken, "invalid_client", "Client unknown.", "{error}"),
   TokenBody(TRUE, NoToken, undefined, undefined, "{}")}

\* A CustomError with its code and message.
ThrowWith(code, message) == [kind |-> "throw", value |-> code, message |-> message]

\* Lines 568-593: what refreshAccessToken returns or throws for a body.
refreshOutcome(body) ==
  IF ~body.parses
  THEN ThrowWith("REFRESH_ACCESS_TOKEN_PARSE_ERROR", body.text)
  ELSE IF body.access_token # NoToken
  THEN Return(undefined)
  ELSE IF body.error # undefined
  THEN ThrowWith(body.error, body.error_description)
  ELSE ThrowWith("UNKNOWN_REFRESH_ACCESS_TOKEN_ERROR", body.text)

RefreshResponseEvent(scope, body) ==
  Event("token_response", scope, body.access_token, InstanceTimeouts, Seconds(0), body)

\* The scopes refreshAccessToken is called with.
RefreshScopes == {undefined} \cup ScopeInputs

\* refreshAccessToken(scope) up to its await.
RefreshAccessToken(c) ==
  /\ report.stage = "off"
  /\ chain[c].pc \in {"idle", "settled"}
  /\ \E scope \in RefreshScopes :
       chain' = [chain EXCEPT ![c] =
         RequestToken([IdleChain EXCEPT !.req_params = [@ EXCEPT !.scope = scope]],
                      scope, _current_call_timeouts, "refreshing")]
  /\ UNCHANGED <<report, configVars, versionVars, normVars, tokenVars>>

\* The token response of a refreshAccessToken call arrives.
RefreshResponse(c) ==
  /\ chain[c].pc = "refreshing"
  /\ \E body \in RefreshResponses(FirstIssuedToken + issued) :
       /\ body.access_token # NoToken => issued < MaxTokens
       /\ issued' = IF body.access_token # NoToken THEN issued + 1 ELSE issued
       /\ _access_token' =
            storeDefault(chain[c].req_params.scope,
                         IF body.parses THEN body.access_token ELSE NoToken)
       /\ _grantless_tokens' =
            storeGrantless(chain[c].req_params.scope,
                           IF body.parses THEN body.access_token ELSE NoToken)
       /\ chain' = [chain EXCEPT ![c] =
            Settle([@ EXCEPT !.log =
                      Append(@, RefreshResponseEvent(chain[c].req_params.scope, body))],
                   refreshOutcome(body))]
  /\ UNCHANGED <<report, configVars, versionVars, normVars, _current_call_timeouts>>

InitRefresh ==
  /\ endpoints = MainRegistry
  /\ \E g \in BOOLEAN : _options = [DefaultOptions EXCEPT !.only_grantless_operations = g]
  /\ _endpoints_versions = [e \in DOMAIN endpoints |-> undefined]
  /\ vcall = [operation |-> <<>>, endpoint |-> undefined, version |-> undefined]
  /\ vresult = Pending
  /\ ncode = <<>> /\ normalized = <<>> /\ renormalized = <<>>
  /\ _access_token \in {NoToken, ConfigToken}
  /\ _grantless_tokens = [s \in ScopeInputs |-> NoToken]
  /\ _current_call_timeouts = InstanceTimeouts
  /\ issued = 0
  /\ chain = [c \in Chains |-> IF c = 1 THEN IdleChain ELSE OffChain]
  /\ report = OffReport

NextRefresh == RefreshAccessToken(1) \/ RefreshResponse(1)

SpecRefresh == InitRefresh /\ [][NextRefresh]_vars

\* The token slots are as they were.
SlotsUnchanged ==
  /\ _access_token' = _access_token
  /\ _grantless_tokens' = _grantless_tokens

\* The step in which the token response of chain c's call arrives.
RefreshSettles(c) == chain[c].pc = "refreshing" /\ chain'[c].pc = "settled"

\* The step in which chain c's call fails before its await.
RefreshRejected(c) ==
  /\ chain[c].pc \in {"idle", "settled"}
  /\ chain'[c] # chain[c]
  /\ chain'[c].pc = "settled"

\* What the claim prescribes for the token response body of a call with scope.
RefreshPrescribed(c, scope, body) ==
  IF body.parses /\ body.access_token # NoToken
  THEN /\ chain'[c].outcome.kind = "return"
       /\ IF scope = undefined
          THEN /\ _access_token' = body.access_token
               /\ _grantless_tokens' = _grantless_tokens
          ELSE /\ _access_token' = _access_token
               /\ _grantless_tokens'[scope] = body.access_token
               /\ \A s \in ScopeInputs \ {scope} :
                    _grantless_tokens'[s] = _grantless_tokens[s]
  ELSE /\ SlotsUnchanged
       /\ chain'[c].outcome.kind = "throw"
       /\ ~body.parses => chain'[c].outcome.value = "REFRESH_ACCESS_TOKEN_PARSE_ERROR"
       /\ (body.parses /\ body.error # undefined) =>
            /\ chain'[c].outcome.value = body.error
            /\ chain'[c].outcome.message = body.error_description

\* C19: a token response with an access token stores it in the default
\* slot when the call has no scope and in the scope's slot otherwise, and
\* leaves the other slots alone; an error-shaped response fails with the
\* remote error and error_description, an unparseable one with
\* REFRESH_ACCESS_TOKEN_PARSE_ERROR; an invalid scope, and no scope in
\* grantless-only mode, fail with no token request sent; every failure
\* leaves the default token and the scoped tokens unchanged.
C19_RefreshOutcome ==
  [][\A c \in Chains :
       /\ RefreshSettles(c) =>
            RefreshPrescribed(c, chain[c].req_params.scope,
                              chain'[c].log[Len(chain'[c].log)].res)
       /\ RefreshRejected(c) =>
            /\ SlotsUnchanged
            /\ chain'[c].log = <<>>
            /\ chain'[c].outcome =
                 IF chain'[c].req_params.scope = undefined
                 THEN Throw("NO_SCOPE_PROVIDED")
                 ELSE Throw("INVALID_SCOPE_ERROR")
       /\ (/\ chain'[c].pc = "settled"
           /\ chain'[c].req_params.scope \notin valid_scopes \cup {undefined})
          => RefreshRejected(c) \/ chain'[c] = chain[c]
       /\ (/\ chain'[c].pc = "settled"
           /\ chain'[c].req_params.scope = undefined
           /\ _options.only_grantless_operations)
          => RefreshRejected(c) \/ chain'[c] = chain[c]]_vars

\* A refresh for the notifications scope stored the new token in that
\* scope's slot and left the default token as configured.
C19_Witness ==
  /\ chain[1].pc = "settled"
  /\ chain[1].outcome.kind = "return"
  /\ chain[1].req_params.scope = NotificationsScope
  /\ Len(chain[1].log) = 2
  /\ chain[1].log[2].type = "token_response"
  /\ _grantless_tokens[NotificationsScope] = chain[1].log[2].token
  /\ _grantless_tokens[NotificationsScope] # NoToken
  /\ _access_token = ConfigToken

\* An error-shaped response failed a refresh with the remote code and left
\* a token stored by an earlier refresh in place.
C19_FailureReached ==
  /\ chain[1].pc = "settled"
  /\ chain[1].outcome.kind = "throw"
  /\ chain[1].outcome.value = "invalid_grant"
  /\ chain[1].req_params.scope = undefined
  /\ _access_token = FirstIssuedToken

\* No scope in grantless-only mode failed before any token request.
C19_RejectedReached ==
  /\ _options.only_grantless_operations
  /\ chain[1].pc = "settled"
  /\ chain[1].req_params.scope = undefined
  /\ chain[1].outcome = Throw("NO_SCOPE_PROVIDED")
  /\ chain[1].log = <<>>

(***************************************************************************)
(* SpecDocument: download (748-808), downloadStream (723-740) and upload   *)
(* (815-842) called by the user with every kind of document details.  A   *)
(* chain holds one call; its log lists the call with its arguments, then   *)
(* the file read and the request to the pre-signed url it made.  pc is     *)
(* "reading" while upload awaits _readFile and "transferring" while the    *)
(* call awaits the answer of the pre-signed url.                           *)
(***************************************************************************)
PresignedUrl == "https://bucket/doc"

\* The document details a caller passes.
DetailsInputs ==
  {Absent,
   Obj({}),
   Obj({<<"url", "">>}),
   Obj({<<"compressionAlgorithm", "ZIP">>}),
   Obj({<<"url", PresignedUrl>>}),
   Obj({<<"url", PresignedUrl>>, <<"compressionAlgorithm", "">>}),
   Obj({<<"url", PresignedUrl>>, <<"compressionAlgorithm", "GZIP">>}),
   Obj({<<"url", PresignedUrl>>, <<"compressionAlgorithm", "ZIP">>}),
   Obj({<<"url", PresignedUrl>>, <<"compressionAlgorithm", "gzip">>})}

\* The feeds a caller passes to upload.
FeedInputs ==
  {Absent,
   Obj({<<"contentType", "text/xml">>}),
   Obj({<<"content", "<xml/>">>}),
   Obj({<<"content", "<xml/>">>, <<"contentType", "text/xml">>}),
   Obj({<<"file", "/feed.xml">>, <<"contentType", "text/xml">>})}

DocumentCall(type, details, feed) == [type |-> type, details |-> details, feed |-> feed]
ReadFileEvent(file) == [type |-> "read_file", details |-> Absent, feed |-> Absent, file |-> file]
UrlRequestEvent(url) == [type |-> "url_request", details |-> Absent, feed |-> Absent, url |-> url]

\* this._request.execute / streamDownload for the url of the details.
requestUrl(ch, details) ==
  [ch EXCEPT !.pc = "transferring",
             !.log = Append(@, UrlRequestEvent(Get(details, "url")))]

\* download and downloadStream up to their await, for the outcome v of
\* _validateDocumentDetails.
startDownload(ch, v) ==
  IF v.kind = "throw" THEN Settle(ch, v) ELSE requestUrl(ch, v.value)

\* upload up to its first await (816-830), for the outcome v of
\* _validateDocumentDetails.
startUpload(ch, v, feed) ==
  IF v.kind = "throw"
  THEN Settle(ch, v)
  ELSE IF ~feed.present \/ (falsy(Get(feed, "content")) /\ falsy(Get(feed, "file")))
  THEN Settle(ch, Throw("NO_FEED_CONTENT_PROVIDED"))
  ELSE IF falsy(Get(feed, "contentType"))
  THEN Settle(ch, Throw("NO_FEED_CONTENT_TYPE_PROVIDED"))
  ELSE IF falsy(Get(feed, "content"))
  THEN [ch EXCEPT !.pc = "reading", !.log = Append(@, ReadFileEvent(Get(feed, "file")))]
  ELSE requestUrl(ch, v.value)

\* The chain of a new call whose log starts with the call.
CalledChain(type, details, feed) ==
  [IdleChain EXCEPT !.log = <<DocumentCall(type, details, feed)>>]

download(c) ==
  /\ report.stage = "off"
  /\ chain[c].pc \in {"idle", "settled"}
  /\ \E details \in DetailsInputs :
       chain' = [chain EXCEPT ![c] =
         startDownload(CalledChain("download", details, Absent),
                       _validateDocumentDetails(details))]
  /\ UNCHANGED <<report, configVars, versionVars, normVars, tokenVars>>

downloadStream(c) ==
  /\ report.stage = "off"
  /\ chain[c].pc \in {"idle", "settled"}
  /\ \E details \in DetailsInputs :
       chain' = [chain EXCEPT ![c] =
         startDownload(CalledChain("downloadStream", details, Absent),
                       _validateDocumentDetails(details))]
  /\ UNCHANGED <<report, configVars, versionVars, normVars, tokenVars>>

upload(c) ==
  /\ report.stage = "off"
  /\ chain[c].pc \in {"idle", "settled"}
  /\ \E details \in DetailsInputs, feed \in FeedInputs :
       chain' = [chain EXCEPT ![c] =
         startUpload(CalledChain("upload", details, feed),
                     _validateDocumentDetails(details), feed)]
  /\ UNCHANGED <<report, configVars, versionVars, normVars, tokenVars>>

\* upload's _readFile settles: the content is uploaded, or the error of
\* fs.readFile is thrown (830).
ReadFileReturns(c) ==
  /\ chain[c].pc = "reading"
  /\ \/ chain' = [chain EXCEPT ![c] = requestUrl(@, chain[c].log[1].details)]
     \/ chain' = [chain EXCEPT ![c] = Settle(@, Throw("ENOENT"))]
  /\ UNCHANGED <<report, configVars, versionVars, normVars, tokenVars>>

\* What upload gives once the pre-signed url answered.
UploadOutcomes == {Return(Obj({<<"success", "true">>})), Throw("UPLOAD_ERROR")}

\* The pre-signed url answers and the call settles.
UrlResponse(c) ==
  /\ chain[c].pc = "transferring"
  /\ \E outcome \in IF chain[c].log[1].type = "upload"
                    THEN UploadOutcomes ELSE DownloadOutcomes :
       chain' = [chain EXCEPT ![c] = Settle(@, outcome)]
  /\ UNCHANGED <<report, configVars, versionVars, normVars, tokenVars>>

InitDocument ==
  /\ endpoints = MainRegistry
  /\ _options = DefaultOptions
  /\ _endpoints_versions = [e \in DOMAIN endpoints |-> undefined]
  /\ vcall = [operation |-> <<>>, endpoint |-> undefined, version |-> undefined]
  /\ vresult = Pending
  /\ ncode = <<>> /\ normalized = <<>> /\ renormalized = <<>>
  /\ _access_token \in {NoToken, ConfigToken}
  /\ _grantless_tokens = [s \in ScopeInputs |-> NoToken]
  /\ _current_call_timeouts = InstanceTimeouts
  /\ issued = 0
  /\ chain = [c \in Chains |-> IF c = 1 THEN IdleChain ELSE OffChain]
  /\ report = OffReport

NextDocument ==
  \/ download(1)
  \/ downloadStream(1)
  \/ upload(1)
  \/ ReadFileReturns(1)
  \/ UrlResponse(1)

SpecDocument == InitDocument /\ [][NextDocument]_vars

\* The chain made a download, downloadStream or upload call.
DocumentCalled(c) ==
  /\ chain[c].pc \notin {"off", "idle"}
  /\ chain[c].log[1].type \in {"download", "downloadStream", "upload"}

\* The call ended on its validation: nothing was read and nothing requested.
RejectedWith(c, code) ==
  /\ chain[c].pc = "settled"
  /\ chain[c].outcome = Throw(code)
  /\ Len(chain[c].log) = 1

\* C20: download, downloadStream and upload fail with
\* DOCUMENT_INFORMATION_MISSING for details without a url, and with
\* UNKNOWN_ZIP_STANDARD for a compressionAlgorithm that is present and not
\* GZIP, before anything else they check and with no request to the
\* pre-signed url; for other details neither error is thrown.
C20_DetailsValidatedFirst ==
  \A c \in Chains :
    DocumentCalled(c) =>
      LET details == chain[c].log[1].details
          url == Get(details, "url")
          compression == Get(details, "compressionAlgorithm")
      IN IF ~details.present \/ url \in {undefined, ""}
         THEN RejectedWith(c, "DOCUMENT_INFORMATION_MISSING")
         ELSE IF compression \notin {undefined, "", "GZIP"}
         THEN RejectedWith(c, "UNKNOWN_ZIP_STANDARD")
         ELSE /\ chain[c].outcome # Throw("DOCUMENT_INFORMATION_MISSING")
              /\ chain[c].outcome # Throw("UNKNOWN_ZIP_STANDARD")
              /\ \A i \in 1..Len(chain[c].log) :
                   chain[c].log[i].type = "url_request" => chain[c].log[i].url = url

\* An upload with a url, the compression algorithm ZIP and no feed failed
\* with UNKNOWN_ZIP_STANDARD, not with the feed's error.
C20_Witness ==
  /\ DocumentCalled(1)
  /\ chain[1].log[1].type = "upload"
  /\ chain[1].log[1].feed = Absent
  /\ Get(chain[1].log[1].details, "url") = PresignedUrl
  /\ Get(chain[1].log[1].details, "compressionAlgorithm") = "ZIP"
  /\ RejectedWith(1, "UNKNOWN_ZIP_STANDARD")

\* A download without a url failed with DOCUMENT_INFORMATION_MISSING.
C20_MissingReached ==
  /\ DocumentCalled(1)
  /\ chain[1].log[1].type = "download"
  /\ chain[1].log[1].details = Obj({<<"compressionAlgorithm", "ZIP">>})
  /\ RejectedWith(1, "DOCUMENT_INFORMATION_MISSING")

\* A downloadStream of a GZIP document requested the pre-signed url.
C20_RequestReached ==
  /\ DocumentCalled(1)
  /\ chain[1].log[1].type = "downloadStream"
  /\ Len(chain[1].log) = 2
  /\ chain[1].log[2].type = "url_request"
  /\ chain[1].pc = "transferring"

(***************************************************************************)
(* The resolved version, checked under SpecVersion.                        *)
(***************************************************************************)
\* C28: when resolution succeeds for an operation and endpoint that passed
\* _validateOperationAndEndpoint, the version returned is defined, is one of
\* the endpoint's versions and defines the operation, for every explicit
\* version, pin and version_fallback setting.
C28_ResolvedVersionDefinesOperation ==
  (vresult.kind = "return" /\ VValidated.kind = "return") =>
    /\ vresult.value.version # undefined
    /\ \E i \in 1..Len(VVersions) : VVersions[i] = vresult.value.version
    /\ VOperation \in endpoints[VEndpoint].ops[vresult.value.version]
    /\ vresult.value.operation = VOperation
    /\ vresult.value.endpoint = VEndpoint

\* The call asked for 2022-11-01, which does not define the operation, while
\* the endpoint is pinned to 2021-06-30; the fallback gave 2020-01-01, which
\* defines it.
C28_Witness ==
  /\ vresult.kind = "return"
  /\ VValidated.kind = "return"
  /\ vcall.version = "2022-11-01"
  /\ _endpoints_versions[VEndpoint] = "2021-06-30"
  /\ VDefining = {1}
  /\ vresult.value.version = "2020-01-01"

(***************************************************************************)
(* The tries counter, checked under SpecReport.                            *)
(***************************************************************************)
\* The run is between two calls of getReport, or past the last one.
BetweenPolls == report.stage \notin {"off", "idle", "creating", "polling"}

\* C24 (as stated): after any number of polls tries equals the number of
\* getReport calls issued since downloadReport set it to 0.
C24_Original ==
  BetweenPolls => report.req_params.tries = Cardinality(ReportEvents("getReport"))

\* C24 (amended): tries counts the getReport calls that read a status other
\* than DONE, CANCELLED and FATAL: a call that reads one of these three, or
\* that fails, leaves tries as it is, so tries is the number of calls issued
\* only as long as every call read such a status.
C24_TriesCountPendingReads ==
  /\ report.stage \notin {"off", "idle"} =>
       /\ report.req_params.tries = Cardinality(PendingRead)
       /\ report.req_params.tries <= Cardinality(ReportEvents("getReport"))
  /\ (BetweenPolls /\ report.stage \in {"waiting", "cancelling"}) =>
       report.req_params.tries = Cardinality(ReportEvents("getReport"))

\* Two getReport calls were made, the second read DONE, and tries is 1.
C24_Witness ==
  /\ report.stage = "fetching"
  /\ Cardinality(ReportEvents("getReport")) = 2
  /\ Cardinality(DoneRead) = 1
  /\ report.req_params.tries = 1

(***************************************************************************)
(* The bearer after a token-expiry recovery, checked under Spec.           *)
(***************************************************************************)
\* The response at i of chain c's log carried the expiry signal, the refresh
\* that followed stored a token and the request was dispatched again.
RedispatchedAfterExpiry(c, i) ==
  /\ ResponseAt(c, i, ExpirySignal)
  /\ Len(chain[c].log) >= i + 4
  /\ chain[c].log[i + 2].type = "token_response"
  /\ chain[c].log[i + 2].token # NoToken
  /\ chain[c].log[i + 4].type = "api_request"

\* The re-dispatch carries the token of the refresh, not the rejected bearer.
CarriesRefreshedToken(c, i) ==
  /\ chain[c].log[i + 4].token = chain[c].log[i + 2].token
  /\ chain[c].log[i + 4].token # chain[c].log[i - 1].token

\* C25: after a recovery from a token-expired response the re-dispatched
\* request carries the token that the refresh stored and never the bearer
\* that was rejected, for scoped calls, calls with the default token and
\* calls with a restricted data token.
C25_RefreshedBearer ==
  \A c \in Chains : \A i \in 1..Len(chain[c].log) :
    RedispatchedAfterExpiry(c, i) => CarriesRefreshedToken(c, i)

\* The same for the calls that supply no restricted data token, or have a
\* scope.
C25_WithoutRestrictedDataToken ==
  \A c \in Chains : \A i \in 1..Len(chain[c].log) :
    (/\ RedispatchedAfterExpiry(c, i)
     /\ \/ chain[c].req_params.scope # undefined
        \/ chain[c].req_params.restricted_data_token = NoToken)
    => CarriesRefreshedToken(c, i)

\* A call with a restricted data token and no scope was answered with the
\* expiry signal, a new default token was stored, and the request was
\* dispatched again with the restricted data token.
C25_Witness ==
  \E i \in 1..Len(chain[1].log) :
    /\ RedispatchedAfterExpiry(1, i)
    /\ chain[1].req_params.scope = undefined
    /\ chain[1].log[i - 1].token = RestrictedDataToken
    /\ chain[1].log[i + 2].token >= FirstIssuedToken
    /\ _access_token = chain[1].log[i + 2].token
    /\ chain[1].log[i + 4].token = RestrictedDataToken

(***************************************************************************)
(* The steps of one call chain, checked under Spec.                        *)
(***************************************************************************)
\* The number of events of a type in chain c's log.
CountOf(c, type) == Cardinality(ChainEvents(c, type))

\* The dispatches and the token requests of chain c that are not answered
\* and the waits that have not elapsed: the last event of the log is a wait
\* while the chain is in _wait.
DispatchesInFlight(c) == CountOf(c, "api_request") - CountOf(c, "api_response")
RefreshesInFlight(c) == CountOf(c, "token_request") - CountOf(c, "token_response")
WaitsInFlight(c) == IF chain[c].pc = "throttle_wait" THEN 1 ELSE 0
Outstanding(c) == DispatchesInFlight(c) + RefreshesInFlight(c) + WaitsInFlight(c)

\* Every step of the log that was started is completed by the next event:
\* the dispatch by its response, the token request by its response, the wait
\* by the re-entry of callAPI; a dispatch follows an entry of callAPI or the
\* token response of the entry's refresh.
StepsInOrder(c) ==
  \A i \in 1..Len(chain[c].log) :
    LET type == chain[c].log[i].type
        next == IF i < Len(chain[c].log) THEN chain[c].log[i + 1].type ELSE "none"
    IN /\ type = "api_request" => next \in {"api_response", "none"}
       /\ type = "token_request" => next \in {"token_response", "none"}
       /\ type = "wait" => next \in {"enter", "none"}
       /\ (type = "wait" /\ next = "none") => chain[c].pc = "throttle_wait"
       /\ (type = "api_request" /\ next = "none") => chain[c].pc = "dispatched"
       /\ (type = "token_request" /\ next = "none") =>
            chain[c].pc \in {"gate_refresh", "expired_refresh"}
       /\ (type = "api_request" /\ i > 1) =>
            chain[c].log[i - 1].type \in {"enter", "token_response"}

\* A step that goes on after a wait is the step in which the wait elapses.
ResumesAfterWait(c) ==
  \A j \in (Len(chain[c].log) + 1)..Len(chain'[c].log) :
    (j > 1 /\ chain'[c].log[j].type = "enter" /\ chain'[c].log[j - 1].type = "wait")
    => /\ j = Len(chain[c].log) + 1
       /\ chain[c].pc = "throttle_wait"

\* C21: a call chain has at most one outstanding step (a dispatch, a token
\* refresh or a wait) at every moment, never two dispatches in flight, and
\* dispatches again only after the refresh or the wait before it completed.
C21_SequentialRetries ==
  /\ [](\A c \in Chains :
          /\ Outstanding(c) \in {0, 1}
          /\ DispatchesInFlight(c) \in {0, 1}
          /\ StepsInOrder(c))
  /\ [][\A c \in Chains : ResumesAfterWait(c)]_vars

\* A throttled call waited, was dispatched again, was told that its token
\* expired, refreshed it and has its third dispatch in flight.
C21_Witness ==
  /\ chain[1].pc = "dispatched"
  /\ CountOf(1, "api_request") = 3
  /\ CountOf(1, "api_response") = 2
  /\ CountOf(1, "wait") = 1
  /\ \E i \in 1..Len(chain[1].log) : RedispatchedAfterExpiry(1, i)

(***************************************************************************)
(* SpecConcurrent: two calls of callAPI on one instance, their steps       *)
(* interleaved at the awaits.                                              *)
(***************************************************************************)
InitConcurrent ==
  /\ endpoints = MainRegistry
  /\ _options = DefaultOptions
  /\ _endpoints_versions = [e \in DOMAIN endpoints |-> undefined]
  /\ vcall = [operation |-> <<>>, endpoint |-> undefined, version |-> undefined]
  /\ vresult = Pending
  /\ ncode = <<>> /\ normalized = <<>> /\ renormalized = <<>>
  /\ _access_token \in {NoToken, ConfigToken}
  /\ _grantless_tokens = [s \in ScopeInputs |-> NoToken]
  /\ _current_call_timeouts = InstanceTimeouts
  /\ issued = 0
  /\ chain = [c \in Chains |-> IdleChain]
  /\ report = OffReport

SpecConcurrent == InitConcurrent /\ [][Next]_vars

(***************************************************************************)
(* Token refreshes of two chains, checked under SpecConcurrent.            *)
(***************************************************************************)
\* Chain c awaits the token response of a refresh for the slot of scope.
RefreshInFlight(c, scope) ==
  /\ chain[c].pc \in {"gate_refresh", "expired_refresh"}
  /\ chain[c].req_params.scope = scope

\* The token in the slot of scope (undefined: the default slot).
SlotOf(access_token, grantless_tokens, scope) ==
  IF scope = undefined THEN access_token ELSE grantless_tokens[scope]

\* The step in which chain c enters callAPI from its caller or after a wait.
EntersCallAPI(c) ==
  /\ chain[c].pc \in {"idle", "throttle_wait"}
  /\ chain'[c] # chain[c]

\* The step in which chain c reads a response with the expiry signal.
ReadsExpiry(c) ==
  /\ chain[c].pc = "dispatched"
  /\ chain'[c] # chain[c]
  /\ Len(chain'[c].log) > Len(chain[c].log)
  /\ chain'[c].log[Len(chain[c].log) + 1].type = "api_response"
  /\ ExpirySignal(chain'[c].log[Len(chain[c].log) + 1].res)
  /\ ~chain[c].req_params.options.raw_result

\* Chain c's last event is its own token request for its scope.
OwnTokenRequest(c) ==
  /\ chain'[c].pc \in {"gate_refresh", "expired_refresh"}
  /\ chain'[c].log[Len(chain'[c].log)].type = "token_request"
  /\ chain'[c].log[Len(chain'[c].log)].scope = chain'[c].req_params.scope

\* The step in which a token response with a token arrives for chain c.
TokenStored(c) ==
  /\ chain[c].pc \in {"gate_refresh", "expired_refresh"}
  /\ Len(chain'[c].log) > Len(chain[c].log)
  /\ chain'[c].log[Len(chain[c].log) + 1].type = "token_response"
  /\ chain'[c].log[Len(chain[c].log) + 1].token # NoToken

\* C22: a chain that finds its token slot missing, or reads the expiry
\* signal, sends a token request of its own whether or not a refresh of
\* another chain for the same slot is in flight; and a token response that
\* carries a token overwrites the slot whatever it holds, so the slot has the
\* token of the response processed last.
C22_RefreshNotSingleFlight ==
  [][\A c \in Chains :
       /\ (/\ EntersCallAPI(c)
           /\ chain'[c].req_params.api_path # <<>>
           /\ chain'[c].req_params.scope \in valid_scopes \cup {undefined}
           /\ _options.auto_request_tokens
           /\ _validateOperationAllowance(_options, chain'[c].req_params.scope)
           /\ SlotOf(_access_token, _grantless_tokens, chain'[c].req_params.scope) = NoToken)
          => OwnTokenRequest(c)
       /\ (ReadsExpiry(c) /\ _options.auto_request_tokens
           /\ chain[c].req_params.scope \in valid_scopes \cup {undefined})
          => OwnTokenRequest(c)
       /\ TokenStored(c) =>
            SlotOf(_access_token', _grantless_tokens', chain[c].req_params.scope)
              = chain'[c].log[Len(chain[c].log) + 1].token]_vars

\* Both chains await the token response of a refresh for the default slot.
C22_Witness ==
  /\ RefreshInFlight(1, undefined)
  /\ RefreshInFlight(2, undefined)

\* Both chains were told that the default token expired and refreshed it;
\* the slot holds the token of the response processed last, the token the
\* other chain had stored is gone.
C22_LastWriterReached ==
  \E c, d \in Chains :
    /\ c # d
    /\ \E i \in 1..Len(chain[c].log), j \in 1..Len(chain[d].log) :
         /\ chain[c].log[i].type = "token_response"
         /\ chain[d].log[j].type = "token_response"
         /\ chain[c].log[i].scope = undefined
         /\ chain[d].log[j].scope = undefined
         /\ i > 1 /\ j > 1
         /\ chain[c].log[i - 1].type = "token_request"
         /\ i > 2 /\ chain[c].log[i - 2].type = "api_response"
         /\ j > 2 /\ chain[d].log[j - 2].type = "api_response"
         /\ chain[c].log[i].token # NoToken
         /\ chain[d].log[j].token > chain[c].log[i].token
         /\ _access_token = chain[d].log[j].token

(***************************************************************************)
(* The timeouts of nested token requests, checked under SpecConcurrent.    *)
(***************************************************************************)
\* The token requests in chain c's log.
TokenRequests(c) == ChainEvents(c, "token_request")

\* No other chain has called callAPI.
NoOtherCall(c) == \A d \in Chains \ {c} : chain[d].pc = "idle"

\* The step in which chain c sends a token request.
SendsTokenRequest(c) ==
  /\ Len(chain'[c].log) > Len(chain[c].log)
  /\ chain'[c].log[Len(chain'[c].log)].type = "token_request"
  /\ chain'[c].pc \in {"gate_refresh", "expired_refresh"}

\* C23: a token request is sent with the current-call timeouts of the
\* instance, which every call overwrites when it enters callAPI: as long as
\* no other call was made, each token request a chain sends carries the
\* timeouts of the chain's own call; with a concurrent call it carries the
\* timeouts of whichever call entered last, which can be the other call's.
C23_SharedCallTimeouts ==
  /\ [](\A c \in Chains :
          NoOtherCall(c) =>
            \A i \in TokenRequests(c) :
              chain[c].log[i].timeouts = chain[c].req_params.timeouts)
  /\ [][\A c \in Chains :
          SendsTokenRequest(c) =>
            /\ chain'[c].log[Len(chain'[c].log)].timeouts = _current_call_timeouts'
            /\ \E d \in Chains :
                 /\ chain'[d].req_params.api_path # <<>>
                 /\ _current_call_timeouts' = chain'[d].req_params.timeouts]_vars

\* Chain 1 called with a response timeout of 5000 and chain 2 with 9000;
\* chain 1 read the expiry signal after chain 2 had entered, and its token
\* request was sent with chain 2's timeouts.
C23_Witness ==
  /\ chain[1].req_params.options.timeouts = CallTimeouts
  /\ chain[2].req_params.options.timeouts = OtherCallTimeouts
  /\ chain[1].pc = "expired_refresh"
  /\ chain[1].log[Len(chain[1].log)].type = "token_request"
  /\ chain[1].log[Len(chain[1].log)].timeouts = chain[2].req_params.timeouts
  /\ chain[1].log[Len(chain[1].log)].timeouts # chain[1].req_params.timeouts

\* With no other call made, a call with a response timeout of 5000 sent its
\* gate's token request with these timeouts.
C23_OwnTimeoutsReached ==
  /\ NoOtherCall(1)
  /\ chain[1].req_params.options.timeouts = CallTimeouts
  /\ chain[1].pc = "gate_refresh"
  /\ chain[1].log[Len(chain[1].log)].timeouts.response = 5000

(***************************************************************************)
(* The token slots over all interleavings, checked under SpecConcurrent.   *)
(***************************************************************************)
\* A slot that holds a token holds one after the step.
SlotsStaySet ==
  /\ _access_token # NoToken => _access_token' # NoToken
  /\ \A s \in ScopeInputs : _grantless_tokens[s] # NoToken => _grantless_tokens'[s] # NoToken

\* Every request that was dispatched carries a token.
BearerDefined ==
  \A c \in Chains : \A i \in ChainEvents(c, "api_request") :
    chain[c].log[i].token # NoToken

\* C26: a token slot that is set stays set (possibly with a newer token)
\* through every interleaving of calls, refreshes and failed refreshes, and
\* every dispatched request carries a token.
C26_SlotsNeverCleared ==
  [][SlotsStaySet]_vars /\ []BearerDefined

\* The refresh of chain 1 for the notifications scope failed while the slot
\* held a token; the slot still holds it and chain 2's request carries it.
C26_Witness ==
  /\ chain[1].pc = "settled"
  /\ chain[1].req_params.scope = NotificationsScope
  /\ chain[1].outcome = refreshError("error")
  /\ chain[1].log[Len(chain[1].log)].type = "token_response"
  /\ _grantless_tokens[NotificationsScope] # NoToken
  /\ chain[2].pc = "dispatched"
  /\ chain[2].req_params.scope = NotificationsScope
  /\ chain[2].log[Len(chain[2].log)].token = _grantless_tokens[NotificationsScope]
  /\ Len(chain[1].log) > 4

(***************************************************************************)
(* The independence of the token slots, checked under SpecConcurrent.      *)
(***************************************************************************)
\* The step stores the token of a token response for chain c's scope.
StoresFor(c, scope) == TokenStored(c) /\ chain[c].req_params.scope = scope

\* C27: the default token changes only in a step that stores the token of a
\* refresh without scope, and the token of a scope s only in a step that
\* stores the token of a refresh for s (the refresh of the gate or the one
\* after an expiry response); such a step leaves every other slot as it was,
\* and a refresh that fails changes no slot.
C27_SlotsIndependent ==
  [][/\ _access_token' # _access_token => \E c \in Chains : StoresFor(c, undefined)
     /\ \A s \in ScopeInputs :
          _grantless_tokens'[s] # _grantless_tokens[s] => \E c \in Chains : StoresFor(c, s)
     /\ \A c \in Chains :
          TokenStored(c) =>
            /\ chain[c].req_params.scope # undefined => _access_token' = _access_token
            /\ \A s \in ScopeInputs \ {chain[c].req_params.scope} :
                 _grantless_tokens'[s] = _grantless_tokens[s]]_vars

\* The default token was refreshed by one chain and the token of the
\* notifications scope, later, by the other after an expiry response: both
\* slots hold their own token and the slot of the other scope is empty.
C27_Witness ==
  /\ _access_token >= FirstIssuedToken
  /\ _grantless_tokens[NotificationsScope] > _access_token
  /\ _grantless_tokens[RotationScope] = NoToken
  /\ \E c \in Chains : \E i \in 1..Len(chain[c].log) :
       /\ chain[c].req_params.scope = NotificationsScope
       /\ RedispatchedAfterExpiry(c, i)

============================================================================
